---- MODULE Spec2Model ----
(***************************************************************************)
(* Blood-Donation-server: donor eligibility, privacy-aware donor views,    *)
(* donor matching/search and the contact / request-chat messaging flow.    *)
(*                                                                         *)
(* Collections of the document store are sequences of documents in         *)
(* insertion (natural) order; a document's _id is a positive integer.      *)
(* Dates are integers counted in seconds (TLC integers are 32 bit, a day   *)
(* of the code is 1000*60*60*24 ms = DayMs seconds here).  An absent /     *)
(* null / undefined value is Null, a present value v is Some(v).           *)
(***************************************************************************)
EXTENDS Integers, Sequences, FiniteSets, TLC

VARIABLES
    users,            \* User collection: users[i] is the user with _id i
    donors,           \* Donor collection
    requests,         \* BloodRequest collection
    chats,            \* RequestChat collection
    requestMessages,  \* RequestMessage collection
    contactMessages,  \* ContactMessage collection
    notifications,    \* Notification collection
    donations,        \* Donation collection
    institutions,     \* Institution collection
    auditLogs,        \* AuditLog collection
    procs,            \* the runs in progress: position and local values of each
    now,              \* the wall clock
    req,              \* the HTTP request a single-call specification serves
    res               \* the response of the last handler that ran

vars == <<users, donors, requests, chats, requestMessages, contactMessages,
          notifications, donations, institutions, auditLogs, procs, now, req, res>>

\* The collections, and with them the runs in progress.
store == <<users, donors, requests, chats, requestMessages, contactMessages,
           notifications, donations, institutions, auditLogs, procs>>

\* What the handlers of the messages and of the donor queries never touch.
ledger == <<donations, institutions, auditLogs, procs>>

-----------------------------------------------------------------------------
(* Optional values and small helpers. *)

Null == <<>>
Some(x) == <<x>>
Val(o) == o[1]

Range(s) == {s[i] : i \in 1..Len(s)}

\* Math.floor(a / b) and Math.ceil(a / b) for b > 0.
Floor(a, b) == a \div b
Ceil(a, b) == -((-a) \div b)

\* The first document of a query result (findOne), or null.
First(hits) == IF hits = <<>> THEN Null ELSE Some(Head(hits))

NoResponse == [op |-> "none", status |-> 0, header |-> Null]

\* Model.findById(id)
FindById(coll, id) == LET byId(doc) == doc._id = id IN First(SelectSeq(coll, byId))

-----------------------------------------------------------------------------
(* Bounds and input sets. *)

MaxSkew == 1      \* how far the clock may advance between two reads of a call
MaxJitter == 1    \* seconds around each day boundary that the inputs cover

DayMs == 60 * 60 * 24
MIN_GAP == 90

T0 == 200 * DayMs   \* the clock value at which the checked calls start

Visibilities == {"public", "registered", "admin"}

\* users (by _id): 1 is an admin, 2 and 3 are regular users.
InitialUsers ==
    << [_id |-> 1, role |-> "admin", isActive |-> TRUE],
       [_id |-> 2, role |-> "user", isActive |-> TRUE],
       [_id |-> 3, role |-> "user", isActive |-> TRUE] >>

UserIds == {u._id : u \in Range(InitialUsers)}

\* A signed token carries the id and the role of its user (authRoutes login);
\* jwt.verify accepts it when valid.
Tokens == {[id |-> u._id, role |-> u.role, valid |-> TRUE] : u \in Range(InitialUsers)}
BadToken == [id |-> 0, role |-> "none", valid |-> FALSE]

-----------------------------------------------------------------------------
(* Donor documents (donorSchema). *)

\* A donor document; the fields that no modelled decision reads hold a token.
Donor(id, user, willing, visibility, phoneVisibility, allowContact, bloodGroup, city, lastDonationDate, deferralUntil, isDeleted) ==
    [ _id |-> id, user |-> user, fullName |-> "fullName", email |-> "email",
      phone |-> "phone", emergencyContactName |-> "emergencyContactName",
      emergencyContactPhone |-> "emergencyContactPhone",
      dateOfBirth |-> "dateOfBirth", gender |-> "gender",
      bloodGroup |-> bloodGroup, willingToDonate |-> willing,
      visibility |-> visibility, phoneVisibility |-> phoneVisibility,
      allowRequestContact |-> allowContact, contactPreference |-> "message",
      address |-> [city |-> city], lastDonationDate |-> lastDonationDate,
      totalDonations |-> 0, notes |-> "notes", deferralUntil |-> deferralUntil,
      isDeleted |-> isDeleted, createdAt |-> 0, updatedAt |-> 0 ]

\* The n successive new Date() reads of one handler run that starts at
\* clock value t: a nondecreasing sequence, the clock advancing by at most
\* MaxSkew ticks in all (tick j falls after read k[j]).
ClockReads(t, n) ==
    { [i \in 1..n |-> t + Cardinality({j \in 1..MaxSkew : k[j] < i})] :
        k \in [1..MaxSkew -> 0..n] }

\* The three reads used by the i-th isEligibleToDonate call of a handler.
ReadsOfCall(clk, i) == SubSeq(clk, 3 * i - 2, 3 * i)

\* donorSchema.methods.isEligibleToDonate; clk[1], clk[2] are the new Date()
\* of the deferral test and of its difference, clk[3] the `now` of the gap.
isEligibleToDonate_StrictGap(d, clk) ==
    IF ~d.willingToDonate
    THEN [eligible |-> FALSE, daysUntilEligible |-> Null]
    ELSE IF d.deferralUntil # Null /\ Val(d.deferralUntil) > clk[1]
    THEN [eligible |-> FALSE,
          daysUntilEligible |-> Some(Ceil(Val(d.deferralUntil) - clk[2], DayMs))]
    ELSE IF d.lastDonationDate = Null
    THEN [eligible |-> TRUE, daysUntilEligible |-> Some(0)]
    ELSE LET diffDays == Floor(clk[3] - Val(d.lastDonationDate), DayMs) IN
         IF diffDays > MIN_GAP
         THEN [eligible |-> TRUE, daysUntilEligible |-> Some(0)]
         ELSE [eligible |-> FALSE, daysUntilEligible |-> Some(MIN_GAP - diffDays)]

isEligibleToDonate_DeferralFirst(d, clk) ==
    IF d.deferralUntil # Null /\ Val(d.deferralUntil) > clk[1]
    THEN [eligible |-> FALSE,
          daysUntilEligible |-> Some(Ceil(Val(d.deferralUntil) - clk[2], DayMs))]
    ELSE IF ~d.willingToDonate
    THEN [eligible |-> FALSE, daysUntilEligible |-> Null]
    ELSE IF d.lastDonationDate = Null
    THEN [eligible |-> TRUE, daysUntilEligible |-> Some(0)]
    ELSE LET diffDays == Floor(clk[3] - Val(d.lastDonationDate), DayMs) IN
         IF diffDays >= MIN_GAP
         THEN [eligible |-> TRUE, daysUntilEligible |-> Some(0)]
         ELSE [eligible |-> FALSE, daysUntilEligible |-> Some(MIN_GAP - diffDays)]

isEligibleToDonate(d, clk) ==
    IF ~d.willingToDonate
    THEN [eligible |-> FALSE, daysUntilEligible |-> Null]
    ELSE IF d.deferralUntil # Null /\ Val(d.deferralUntil) > clk[1]
    THEN [eligible |-> FALSE,
          daysUntilEligible |-> Some(Ceil(Val(d.deferralUntil) - clk[2], DayMs))]
    ELSE IF d.lastDonationDate = Null
    THEN [eligible |-> TRUE, daysUntilEligible |-> Some(0)]
    ELSE LET diffDays == Floor(clk[3] - Val(d.lastDonationDate), DayMs) IN
         IF diffDays >= MIN_GAP
         THEN [eligible |-> TRUE, daysUntilEligible |-> Some(0)]
         ELSE [eligible |-> FALSE, daysUntilEligible |-> Some(MIN_GAP - diffDays)]

-----------------------------------------------------------------------------
(* donorSchema.methods.toSafeObject: the view of donor d for a viewer.  A    *)
(* view is a function from the names of the fields it includes.             *)

BaseFields ==
    {"id", "_id", "profilePicture", "fullName", "bloodGroup", "willingToDonate",
     "address", "visibility", "phoneVisibility", "allowRequestContact",
     "contactPreference", "totalDonations", "lastDonationDate", "createdAt",
     "updatedAt", "eligibility"}

PrivateFields ==
    {"emergencyContactName", "emergencyContactPhone", "notes", "gender", "dateOfBirth"}

normalizedRole(viewerRole) ==
    IF viewerRole = "admin" THEN "admin"
    ELSE IF viewerRole = "guest" THEN "guest" ELSE "registered"

isOwner(d, viewerId) == viewerId # Null /\ d.user = Val(viewerId)

phoneAllowed_RegisteredGated(d, viewerRole, viewerId) ==
    IF normalizedRole(viewerRole) = "admin" \/ isOwner(d, viewerId) THEN TRUE
    ELSE IF normalizedRole(viewerRole) = "registered"
    THEN d.phoneVisibility \in {"public", "registered"}
    ELSE d.phoneVisibility = "public"

phoneAllowed_GuestSeesRegistered(d, viewerRole, viewerId) ==
    IF normalizedRole(viewerRole) = "admin" \/ isOwner(d, viewerId) THEN TRUE
    ELSE IF normalizedRole(viewerRole) = "registered" THEN TRUE
    ELSE d.phoneVisibility \in {"public", "registered"}

phoneAllowed(d, viewerRole, viewerId) ==
    IF normalizedRole(viewerRole) = "admin" \/ isOwner(d, viewerId) THEN TRUE
    ELSE IF normalizedRole(viewerRole) = "registered" THEN TRUE
    ELSE d.phoneVisibility = "public"

IncludedFields_AdminOnly(d, viewerRole, viewerId) ==
    BaseFields
    \cup (IF phoneAllowed(d, viewerRole, viewerId) THEN {"phone"} ELSE {})
    \cup (IF isOwner(d, viewerId) \/ normalizedRole(viewerRole) \in {"admin", "registered"}
          THEN {"email"} ELSE {})
    \cup (IF normalizedRole(viewerRole) = "admin" THEN PrivateFields ELSE {})

IncludedFields(d, viewerRole, viewerId) ==
    BaseFields
    \cup (IF phoneAllowed(d, viewerRole, viewerId) THEN {"phone"} ELSE {})
    \cup (IF isOwner(d, viewerId) \/ normalizedRole(viewerRole) \in {"admin", "registered"}
          THEN {"email"} ELSE {})
    \cup (IF isOwner(d, viewerId) \/ normalizedRole(viewerRole) = "admin"
          THEN PrivateFields ELSE {})

toSafeObject_Denylist(d, viewerRole, viewerId, clk) ==
    [ f \in IncludedFields(d, viewerRole, viewerId) \cup {"deferralUntil", "isDeleted"} |->
        IF f = "id" THEN d._id
        ELSE IF f = "profilePicture" THEN Null
        ELSE IF f = "eligibility" THEN isEligibleToDonate(d, clk)
        ELSE d[f] ]

toSafeObject(d, viewerRole, viewerId, clk) ==
    [ f \in IncludedFields(d, viewerRole, viewerId) |->
        IF f = "id" THEN d._id
        ELSE IF f = "profilePicture" THEN Null
        ELSE IF f = "eligibility" THEN isEligibleToDonate(d, clk)
        ELSE d[f] ]

-----------------------------------------------------------------------------
(* Donor queries. *)

\* Helper: which visibilities can a role see.
allowedVisibilities_GuestSeesRegistered(role) ==
    IF role = "admin" THEN {"public", "registered", "admin"}
    ELSE {"public", "registered"}

allowedVisibilities(role) ==
    IF role = "admin" THEN {"public", "registered", "admin"}
    ELSE IF role = "guest" THEN {"public"}
    ELSE {"public", "registered"}

\* Characters of the modelled city strings; "." is a regular-expression
\* metacharacter (any character), "D" and "A" are the upper case of "d", "a".
Chars == {"d", "D", "a", "A", "."}

Lower(c) == IF c = "D" THEN "d" ELSE IF c = "A" THEN "a" ELSE c

\* { field: { $regex: pattern, $options: "i" } } on an optional string field:
\* the unanchored, case-insensitive regular expression pattern matches it.
RegexI(pattern, field) ==
    /\ field # Null
    /\ LET str == Val(field) IN
       \E i \in 1..(Len(str) - Len(pattern) + 1) :
          \A j \in 1..Len(pattern) :
             pattern[j] = "." \/ Lower(pattern[j]) = Lower(str[i + j - 1])

\* The sequence of the elements of seq at the positions where keep holds.
RECURSIVE Filter(_, _)
Filter(seq, keep) ==
    IF seq = <<>> THEN <<>>
    ELSE (IF Head(keep) THEN <<Head(seq)>> ELSE <<>>) \o Filter(Tail(seq), Tail(keep))

\* The query filters of findMatchingDonors, on donor document d.
matchFilters(d, requestDoc, viewerRole) ==
    /\ d.willingToDonate = TRUE
    /\ d.bloodGroup = requestDoc.bloodGroup
    /\ d.visibility \in allowedVisibilities(viewerRole)
    /\ d.isDeleted = FALSE
    /\ (requestDoc.city # <<>> => RegexI(requestDoc.city, d.address.city))

\* Donor.find(filters) of findMatchingDonors.
findFiltered(requestDoc, viewerRole) ==
    LET filters(d) == matchFilters(d, requestDoc, viewerRole) IN SelectSeq(donors, filters)

\* Helper: find donors matching a request (visibility, willingness, eligibility).
\* clk holds the clock reads of the isEligibleToDonate calls: first those of
\* donors.filter, then those of eligibleDonors.map(toSafeObject).
findMatchingDonors(requestDoc, viewerRole, viewerId, clk) ==
    LET found == findFiltered(requestDoc, viewerRole)
        keep == [ i \in 1..Len(found) |->
                    isEligibleToDonate(found[i], ReadsOfCall(clk, i)).eligible ]
        eligibleDonors == Filter(found, keep)
    IN [ eligibleDonors |-> eligibleDonors,
         safeDonors |-> [ j \in 1..Len(eligibleDonors) |->
             toSafeObject(eligibleDonors[j], viewerRole, viewerId,
                          ReadsOfCall(clk, Len(found) + j)) ] ]

\* The clock reads findMatchingDonors can make when it starts at time t, and
\* the reads of clk that it did make.
MatchClockReads(requestDoc, viewerRole, t) ==
    ClockReads(t, 6 * Len(findFiltered(requestDoc, viewerRole)))
ReadsMade(requestDoc, viewerRole, clk) ==
    SubSeq(clk, 1, 3 * (Len(findFiltered(requestDoc, viewerRole))
                        + Len(findMatchingDonors(requestDoc, viewerRole, Null, clk).eligibleDonors)))

-----------------------------------------------------------------------------
(* Authentication. *)

\* middleware auth (authMiddleware): the request's user, or an error status.
\* header is Null (no Bearer header) or Some(token).
auth(header) ==
    IF header = Null THEN [status |-> 401]
    ELSE IF ~Val(header).valid THEN [status |-> 401]
    ELSE LET user == FindById(users, Val(header).id) IN
         IF user = Null THEN [status |-> 401]
         ELSE IF Val(user).isActive = FALSE THEN [status |-> 403]
         ELSE [status |-> 200, user |-> [id |-> Val(user)._id, role |-> Val(user).role]]

Headers == {Null, Some(BadToken)} \cup {Some(t) : t \in Tokens}

-----------------------------------------------------------------------------
(* GET /donors/:id/eligibility *)

GetEligibility(header, id) ==
    LET a == auth(header)
        donor == FindById(donors, id)
        op == "GET /donors/:id/eligibility"
    IN /\ IF a.status # 200 THEN res' = [op |-> op, status |-> a.status, header |-> header]
          ELSE IF donor = Null THEN res' = [op |-> op, status |-> 404, header |-> header]
          ELSE IF a.user.role # "admin" /\ Val(donor).user # a.user.id
          THEN res' = [op |-> op, status |-> 403, header |-> header]
          ELSE \E clk \in ClockReads(now, 3) :
                 res' = [op |-> op, status |-> 200, header |-> header,
                         donor |-> Val(donor), clk |-> clk,
                         eligibility |-> isEligibleToDonate(Val(donor), clk)]
       /\ UNCHANGED <<store, now, req>>

-----------------------------------------------------------------------------
(* GET /donors/search (public, optional token) *)

\* Helper: determine viewer role/id from the optional Authorization header.
getViewerContext(header) ==
    IF header = Null THEN [role |-> "guest", userId |-> Null]
    ELSE IF ~Val(header).valid THEN [role |-> "guest", userId |-> Null]
    ELSE [role |-> IF Val(header).role = "admin" THEN "admin" ELSE "registered",
          userId |-> Some(Val(header).id)]

\* query.bloodGroup and query.city are Null when not given.
Search(header, bloodGroup, city) ==
    LET viewer == getViewerContext(header)
        filters(d) ==
            /\ d.willingToDonate = TRUE
            /\ d.visibility \in allowedVisibilities(viewer.role)
            /\ (bloodGroup # Null => d.bloodGroup = Val(bloodGroup))
            /\ (city # Null => RegexI(Val(city), d.address.city))
        found == SelectSeq(donors, filters)
    IN /\ \E clk \in ClockReads(now, 3 * Len(found)) :
            res' = [op |-> "GET /donors/search", status |-> 200, header |-> header,
                    query |-> [bloodGroup |-> bloodGroup, city |-> city],
                    data |-> [ j \in 1..Len(found) |->
                        toSafeObject(found[j], viewer.role, viewer.userId,
                                     ReadsOfCall(clk, j)) ]]
       /\ UNCHANGED <<store, now, req>>

-----------------------------------------------------------------------------
(* GET /requests/:id/matches (owner or admin) *)

GetMatches(header, id) ==
    LET a == auth(header)
        bloodRequest == LET live(r) == r._id = id /\ r.isDeleted = FALSE
                        IN First(SelectSeq(requests, live))
        op == "GET /requests/:id/matches"
    IN /\ IF a.status # 200 THEN res' = [op |-> op, status |-> a.status, header |-> header]
          ELSE IF bloodRequest = Null
          THEN res' = [op |-> op, status |-> 404, header |-> header]
          ELSE IF a.user.role # "admin" /\ Val(bloodRequest).user # a.user.id
          THEN res' = [op |-> op, status |-> 403, header |-> header]
          ELSE \E clk \in MatchClockReads(Val(bloodRequest), a.user.role, now) :
                 res' = [op |-> op, status |-> 200, header |-> header, user |-> a.user,
                         request |-> Val(bloodRequest),
                         clk |-> ReadsMade(Val(bloodRequest), a.user.role, clk),
                         data |-> findMatchingDonors(Val(bloodRequest), a.user.role,
                                                     Some(a.user.id), clk)]
       /\ UNCHANGED <<store, now, req>>

-----------------------------------------------------------------------------
(* Messaging: documents, ids and the helpers of the send handlers.          *)
(* The messageLimiter of the two chat send routes (20 calls a minute) is    *)
(* not modelled: every modelled call arrives below the limit.               *)

\* mongoose.isValidObjectId: ids are positive numbers, 0 stands for a path or
\* body value that is not an ObjectId.
isValidObjectId(id) == id # 0

\* String.prototype.trim on a sequence of characters.
RECURSIVE trim(_)
trim(s) ==
    IF s = <<>> THEN s
    ELSE IF Head(s) = " " THEN trim(Tail(s))
    ELSE IF s[Len(s)] = " " THEN trim(SubSeq(s, 1, Len(s) - 1))
    ELSE s

\* message?.toString().trim() of a body whose message is Null when absent.
cleanMessageOf(message) == IF message = Null THEN <<>> ELSE trim(Val(message))

\* The :id of the chat routes: the _id of a RequestChat, or the string
\* "contact_<fromUserId>_<donorId>" split at "_".
ChatId(n) == [contact |-> FALSE, id |-> n, fromUserId |-> 0, donorId |-> 0]
ContactChatId(fromUserId, donorId) ==
    [contact |-> TRUE, id |-> 0, fromUserId |-> fromUserId, donorId |-> donorId]

\* Model.create: the new document gets the next _id of its collection.
NextId(coll) == Len(coll) + 1

ContactMessage(fromUser, toDonor, relatedRequest, message) ==
    [ _id |-> NextId(contactMessages), fromUser |-> fromUser, toDonor |-> toDonor,
      relatedRequest |-> relatedRequest, message |-> message, createdAt |-> now ]

RequestMessage(fromUser, toUser, request, message) ==
    [ _id |-> NextId(requestMessages), fromUser |-> fromUser, toUser |-> toUser,
      request |-> request, message |-> message, createdAt |-> now ]

RequestChat(request, participants) ==
    [ _id |-> NextId(chats), request |-> request, participants |-> participants,
      pausedBy |-> <<>>, lastMessage |-> Null, createdAt |-> now, updatedAt |-> now ]

\* A notification; meta fields that a notification does not carry are Null.
Notification(user, donor, type, contactId, requestId, requestMessageId, chatId) ==
    [ _id |-> NextId(notifications), user |-> user, donor |-> donor, type |-> type,
      meta |-> [contactId |-> contactId, requestId |-> requestId,
                requestMessageId |-> requestMessageId, chatId |-> chatId],
      read |-> FALSE ]

\* The response of a messaging handler: the authenticated user (Null when
\* auth failed), the route and body parameters, the trimmed message and the
\* chat the handler worked on (Null when it did not get to one).
Response(op, status, header, user, target, text, chat) ==
    [ op |-> op, status |-> status, header |-> header, user |-> user,
      target |-> target, text |-> text, chat |-> chat ]

\* The consent check of the contact-message paths.
refusesContact_Inverted(donor) == donor.allowRequestContact = TRUE
refusesContact(donor) == donor.allowRequestContact = FALSE

\* findOne({ _id: id, isDeleted: false }) on donors or requests.
FindLive(coll, id) ==
    LET live(doc) == doc._id = id /\ doc.isDeleted = FALSE IN First(SelectSeq(coll, live))

\* [a, b].sort() of two ids.
SortPair(a, b) == IF a <= b THEN <<a, b>> ELSE <<b, a>>

\* populate("participants"): the users that still exist, in array order.
populate(participants) ==
    LET exists(p) == FindById(users, p) # Null IN SelectSeq(participants, exists)

\* ensureMember(chatId, userId): the chat, or the error status.
ensureMember_NoMemberCheck(chatId, userId) ==
    IF ~isValidObjectId(chatId) THEN [error |-> 400, chat |-> Null]
    ELSE LET chat == FindById(chats, chatId) IN
         IF chat = Null THEN [error |-> 404, chat |-> Null]
         ELSE [error |-> 0, chat |-> chat]

ensureMember(chatId, userId) ==
    IF ~isValidObjectId(chatId) THEN [error |-> 400, chat |-> Null]
    ELSE LET chat == FindById(chats, chatId) IN
         IF chat = Null THEN [error |-> 404, chat |-> Null]
         ELSE IF userId \notin Range(populate(Val(chat).participants))
              THEN [error |-> 403, chat |-> Null]
         ELSE [error |-> 0, chat |-> chat]

\* chat.save() of a changed chat document; the pre("save") hook of the schema
\* sets updatedAt.
SaveChat(coll, chat) ==
    [ i \in 1..Len(coll) |->
        IF coll[i]._id = chat._id THEN [chat EXCEPT !.updatedAt = now] ELSE coll[i] ]

-----------------------------------------------------------------------------
(* POST /contact (contact message to a donor) *)

\* requestId is Null when the body has none.
\* The database write of a send that the database rejects: the creation of
\* the message, chat.save() or the creation of the notification ("none": every
\* write succeeds). The rejected await throws into the catch of the handler,
\* which answers 500.
Faults == {"none", "message", "chat", "notification"}

PostContactWith(header, donorId, requestId, message, fault) ==
    LET a == auth(header)
        op == "POST /contact"
        target == [donorId |-> donorId, requestId |-> requestId]
        cleanMessage == cleanMessageOf(message)
        donor == FindLive(donors, donorId)
        relatedRequest == IF requestId = Null THEN Null ELSE FindLive(requests, Val(requestId))
        out(status, user) == Response(op, status, header, user, target, cleanMessage, Null)
        reject(status) == res' = out(status, Some(a.user.id))
                          /\ UNCHANGED <<store, now, req>>
    IN IF a.status # 200
       THEN res' = out(a.status, Null) /\ UNCHANGED <<store, now, req>>
       ELSE IF cleanMessage = <<>> THEN reject(400)
       ELSE IF ~isValidObjectId(donorId) THEN reject(400)
       ELSE IF donor = Null THEN reject(404)
       ELSE IF Val(donor).user = a.user.id THEN reject(400)
       ELSE IF refusesContact(Val(donor)) THEN reject(403)
       ELSE IF requestId # Null /\ ~isValidObjectId(Val(requestId)) THEN reject(400)
       ELSE IF requestId # Null /\ relatedRequest = Null THEN reject(404)
       ELSE IF /\ requestId # Null
               /\ a.user.role # "admin"
               /\ Val(relatedRequest).user # a.user.id
       THEN reject(403)
       ELSE LET related == IF relatedRequest = Null THEN Null
                           ELSE Some(Val(relatedRequest)._id)
                contact == ContactMessage(a.user.id, donorId, related, cleanMessage)
            IN /\ contactMessages' = IF fault = "message" THEN contactMessages
                                      ELSE Append(contactMessages, contact)
               /\ notifications' = IF fault \in {"message", "notification"} THEN notifications
                                    ELSE Append(notifications,
                      Notification(Val(donor).user, Some(Val(donor)._id), "contact_message",
                                   Some(contact._id), related, Null, Null))
               /\ res' = out(IF fault \in {"message", "notification"} THEN 500 ELSE 201,
                             Some(a.user.id))
               /\ UNCHANGED <<ledger, users, donors, requests, chats, requestMessages, now, req>>

PostContact(header, donorId, requestId, message) ==
    PostContactWith(header, donorId, requestId, message, "none")

-----------------------------------------------------------------------------
(* POST /chats/:id/messages *)

ChatSendWith(header, id, message, fault) ==
    LET a == auth(header)
        op == "POST /chats/:id/messages"
        cleanMessage == cleanMessageOf(message)
        out(status, user, chat) == Response(op, status, header, user, id, cleanMessage, chat)
        reject(status) == res' = out(status, Some(a.user.id), Null)
                          /\ UNCHANGED <<store, now, req>>
    IN IF a.status # 200
       THEN res' = out(a.status, Null, Null) /\ UNCHANGED <<store, now, req>>
       ELSE IF cleanMessage = <<>> THEN reject(400)
       ELSE IF id.contact
       THEN LET donor == FindById(donors, id.donorId) IN
            IF ~isValidObjectId(id.fromUserId) \/ ~isValidObjectId(id.donorId) THEN reject(400)
            ELSE IF id.fromUserId # a.user.id THEN reject(403)
            ELSE IF donor = Null THEN reject(404)
            ELSE IF refusesContact(Val(donor)) THEN reject(403)
            ELSE LET msg == ContactMessage(a.user.id, id.donorId, Null, cleanMessage)
                 IN /\ contactMessages' = IF fault = "message" THEN contactMessages
                                           ELSE Append(contactMessages, msg)
                    /\ notifications' =
                           IF fault \in {"message", "notification"} THEN notifications
                           ELSE Append(notifications,
                           Notification(Val(donor).user, Some(Val(donor)._id),
                                        "contact_message", Some(msg._id), Null, Null, Null))
                    /\ res' = out(IF fault \in {"message", "notification"} THEN 500 ELSE 201,
                                  Some(a.user.id), Null)
                    /\ UNCHANGED <<ledger, users, donors, requests, chats, requestMessages, now, req>>
       ELSE LET m == ensureMember(id.id, a.user.id) IN
            IF m.error # 0 THEN reject(m.error)
            ELSE LET chat == Val(m.chat)
                     notMe(p) == p # a.user.id
                     other == First(SelectSeq(populate(chat.participants), notMe))
                     rejectIn(status) == res' = out(status, Some(a.user.id), Some(chat._id))
                                         /\ UNCHANGED <<store, now, req>>
                 IN IF chat.pausedBy # <<>> THEN rejectIn(403)
                    ELSE IF other = Null THEN rejectIn(400)
                    ELSE LET msg == RequestMessage(a.user.id, Val(other), chat.request,
                                                   cleanMessage)
                         IN /\ requestMessages' = IF fault = "message" THEN requestMessages
                                                   ELSE Append(requestMessages, msg)
                            /\ chats' = IF fault \in {"message", "chat"} THEN chats
                                         ELSE SaveChat(chats, [chat EXCEPT !.lastMessage =
                                   Some([text |-> msg.message, fromUser |-> a.user.id,
                                         createdAt |-> msg.createdAt])])
                            /\ notifications' = IF fault # "none" THEN notifications
                                                 ELSE Append(notifications,
                                   Notification(Val(other), Null, "chat_message", Null,
                                                Some(chat.request), Some(msg._id),
                                                Some(chat._id)))
                            /\ res' = out(IF fault = "none" THEN 201 ELSE 500,
                                          Some(a.user.id), Some(chat._id))
                            /\ UNCHANGED <<ledger, users, donors, requests, contactMessages, now, req>>

ChatSend(header, id, message) == ChatSendWith(header, id, message, "none")

-----------------------------------------------------------------------------
(* POST /requests/:id/contact (message to the owner of a request) *)

RequestContactWith(header, id, message, fault) ==
    LET a == auth(header)
        op == "POST /requests/:id/contact"
        cleanMessage == cleanMessageOf(message)
        bloodRequest == FindLive(requests, id)
        out(status, user, chat) == Response(op, status, header, user, id, cleanMessage, chat)
        reject(status) == res' = out(status, Some(a.user.id), Null)
                          /\ UNCHANGED <<store, now, req>>
    IN IF a.status # 200
       THEN res' = out(a.status, Null, Null) /\ UNCHANGED <<store, now, req>>
       ELSE IF cleanMessage = <<>> THEN reject(400)
       ELSE IF ~isValidObjectId(id) THEN reject(400)
       ELSE IF bloodRequest = Null THEN reject(404)
       ELSE LET owner == Val(bloodRequest).user
                participants == SortPair(a.user.id, owner)
                ofPair(c) == /\ c.request = id
                             /\ Range(participants) \subseteq Range(c.participants)
                found == First(SelectSeq(chats, ofPair))
                chat == IF found = Null THEN RequestChat(id, participants) ELSE Val(found)
                withChat == IF found = Null THEN Append(chats, chat) ELSE chats
            IN IF chat.pausedBy # <<>>
               THEN /\ res' = out(403, Some(a.user.id), Some(chat._id))
                    /\ chats' = withChat
                    /\ UNCHANGED <<ledger, users, donors, requests, requestMessages,
                                   contactMessages, notifications, now, req>>
               ELSE LET msg == RequestMessage(a.user.id, owner, id, cleanMessage)
                    IN /\ requestMessages' = IF fault = "message" THEN requestMessages
                                              ELSE Append(requestMessages, msg)
                       /\ chats' = IF fault \in {"message", "chat"} THEN withChat
                                    ELSE SaveChat(withChat, [chat EXCEPT !.lastMessage =
                              Some([text |-> msg.message, fromUser |-> a.user.id,
                                    createdAt |-> msg.createdAt])])
                       /\ notifications' = IF fault # "none" THEN notifications
                                            ELSE Append(notifications,
                              Notification(owner, Null, "request_message", Null, Some(id),
                                           Some(msg._id), Some(chat._id)))
                       /\ res' = out(IF fault = "none" THEN 201 ELSE 500,
                                     Some(a.user.id), Some(chat._id))
                       /\ UNCHANGED <<ledger, users, donors, requests, contactMessages, now, req>>

RequestContact(header, id, message) == RequestContactWith(header, id, message, "none")

-----------------------------------------------------------------------------
(* POST /chats/:id/pause and POST /chats/:id/unpause *)

Pause(header, id) ==
    LET a == auth(header)
        op == "POST /chats/:id/pause"
        m == ensureMember(id, a.user.id)
        out(status, user, chat) == Response(op, status, header, user, ChatId(id), <<>>, chat)
    IN IF a.status # 200
       THEN res' = out(a.status, Null, Null) /\ UNCHANGED <<store, now, req>>
       ELSE IF m.error # 0
       THEN res' = out(m.error, Some(a.user.id), Null) /\ UNCHANGED <<store, now, req>>
       ELSE LET chat == Val(m.chat)
                alreadyPaused == a.user.id \in Range(chat.pausedBy)
            IN /\ chats' = IF alreadyPaused THEN chats
                           ELSE SaveChat(chats, [chat EXCEPT !.pausedBy =
                                                    Append(chat.pausedBy, a.user.id)])
               /\ res' = out(200, Some(a.user.id), Some(chat._id))
               /\ UNCHANGED <<ledger, users, donors, requests, requestMessages, contactMessages,
                              notifications, now, req>>

Unpause(header, id) ==
    LET a == auth(header)
        op == "POST /chats/:id/unpause"
        m == ensureMember(id, a.user.id)
        out(status, user, chat) == Response(op, status, header, user, ChatId(id), <<>>, chat)
    IN IF a.status # 200
       THEN res' = out(a.status, Null, Null) /\ UNCHANGED <<store, now, req>>
       ELSE IF m.error # 0
       THEN res' = out(m.error, Some(a.user.id), Null) /\ UNCHANGED <<store, now, req>>
       ELSE LET chat == Val(m.chat)
                notMe(p) == p # a.user.id
            IN /\ chats' = SaveChat(chats, [chat EXCEPT !.pausedBy =
                                               SelectSeq(chat.pausedBy, notMe)])
               /\ res' = out(200, Some(a.user.id), Some(chat._id))
               /\ UNCHANGED <<ledger, users, donors, requests, requestMessages, contactMessages,
                              notifications, now, req>>

-----------------------------------------------------------------------------
(* PUT /requests/:id/status (update request status) *)

allowedStatuses == {"open", "fulfilled", "cancelled"}

AuditLog(user, action, targetType, targetId, details) ==
    [ _id |-> NextId(auditLogs), user |-> user, action |-> action,
      targetType |-> targetType, targetId |-> targetId, details |-> details,
      createdAt |-> now ]

\* bloodRequest.save() of a changed request document.
SaveRequest(coll, bloodRequest) ==
    [ i \in 1..Len(coll) |-> IF coll[i]._id = bloodRequest._id THEN bloodRequest ELSE coll[i] ]

UpdateRequestStatus(header, id, status) ==
    LET a == auth(header)
        op == "PUT /requests/:id/status"
        target == [id |-> id, status |-> status]
        bloodRequest == FindLive(requests, id)
        out(code, user) == Response(op, code, header, user, target, <<>>, Null)
        reject(code) == res' = out(code, Some(a.user.id)) /\ UNCHANGED <<store, now, req>>
    IN IF a.status # 200
       THEN res' = out(a.status, Null) /\ UNCHANGED <<store, now, req>>
       ELSE IF ~isValidObjectId(id) THEN reject(400)
       ELSE IF status \notin allowedStatuses THEN reject(400)
       ELSE IF bloodRequest = Null THEN reject(404)
       ELSE IF Val(bloodRequest).user = a.user.id THEN reject(400)
       ELSE IF a.user.role # "admin" /\ Val(bloodRequest).user # a.user.id THEN reject(403)
       ELSE /\ requests' = SaveRequest(requests, [Val(bloodRequest) EXCEPT !.status = status])
            /\ auditLogs' = Append(auditLogs,
                   AuditLog(a.user.id, "update_request_status", "Request", id,
                            [status |-> status]))
            /\ res' = out(200, Some(a.user.id))
            /\ UNCHANGED <<users, donors, chats, requestMessages, contactMessages,
                           notifications, donations, institutions, procs, now, req>>

-----------------------------------------------------------------------------
(* The seeding script for one user (seed_donations.js, second script): a    *)
(* run ensures the donor profile of the user, then records three donations  *)
(* for it. Each await of the script is one step of the run; runs of the     *)
(* script started side by side interleave at their awaits.                  *)

\* daysAgo(n): the clock value n days back.
daysAgo(n) == now - n * DayMs

\* The fields of basePayload that the model of a donor distinguishes.
WithBasePayload(d) ==
    [d EXCEPT !.willingToDonate = TRUE, !.visibility = "public",
              !.phoneVisibility = "registered"]

Donation(donor, institution, donationDate) ==
    [ _id |-> NextId(donations), donor |-> donor, institution |-> institution,
      donationDate |-> donationDate, units |-> 1, createdAt |-> now ]

\* doc.save() of a loaded document: the paths in `paths` are written, the
\* other fields of the stored document stay as they are.
SavePaths(coll, doc, paths) ==
    [ i \in 1..Len(coll) |->
        IF coll[i]._id = doc._id
        THEN [ f \in DOMAIN coll[i] |-> IF f \in paths THEN doc[f] ELSE coll[i][f] ]
        ELSE coll[i] ]

\* A run of the script for the user: its position and its local values.
NewRun(user) ==
    [ pc |-> "findDonor", user |-> user, donor |-> Null, donationDates |-> <<>>,
      created |-> <<>>, counted |-> 0 ]

\* The run p moves to position pc with the local values changed as in `run`.
Goto(p, run) == procs' = [procs EXCEPT ![p] = run]

\* main for user `user` starts: a new run.
StartRun(user) ==
    /\ procs' = Append(procs, NewRun(user))
    /\ UNCHANGED <<users, donors, requests, chats, requestMessages, contactMessages,
                   notifications, donations, institutions, auditLogs, now, req, res>>

\* ensureDonorForUser: Donor.findOne({ user: user._id }).
FindDonor(p) ==
    LET run == procs[p]
        ofUser(d) == d.user = run.user
    IN /\ run.pc = "findDonor"
       /\ Goto(p, [run EXCEPT !.pc = "saveDonor",
                              !.donor = First(SelectSeq(donors, ofUser))])
       /\ UNCHANGED <<users, donors, requests, chats, requestMessages, contactMessages,
                      notifications, donations, institutions, auditLogs, now, req, res>>

\* ensureDonorForUser: donor.save() of the new or updated profile; then
\* createDonations starts and computes its three dates.
SaveDonor(p) ==
    LET run == procs[p]
        donor == IF run.donor = Null
                 THEN [Donor(NextId(donors), run.user, TRUE, "public", "registered", TRUE,
                             "O-", Some(<<"D", "a">>), Null, Null, FALSE)
                         EXCEPT !.createdAt = now, !.updatedAt = now]
                 ELSE WithBasePayload(Val(run.donor))
    IN /\ run.pc = "saveDonor"
       /\ donors' = IF run.donor = Null THEN Append(donors, donor)
                    ELSE SavePaths(donors, donor,
                                   {"willingToDonate", "visibility", "phoneVisibility"})
       /\ Goto(p, [run EXCEPT !.pc = "saveDonation", !.donor = Some(donor),
                              !.donationDates = <<daysAgo(150), daysAgo(60), daysAgo(10)>>])
       /\ UNCHANGED <<users, requests, chats, requestMessages, contactMessages,
                      notifications, donations, institutions, auditLogs, now, req, res>>

\* createDonations: donation.save() of the next of the three donations.
SaveDonation(p) ==
    LET run == procs[p]
        donation == Donation(Val(run.donor)._id, Head(institutions)._id,
                             run.donationDates[Len(run.created) + 1])
    IN /\ run.pc = "saveDonation"
       /\ donations' = Append(donations, donation)
       /\ Goto(p, [run EXCEPT !.created = Append(run.created, donation),
                              !.pc = IF Len(run.created) + 1 = Len(run.donationDates)
                                     THEN "saveTotals" ELSE "saveDonation"])
       /\ UNCHANGED <<users, donors, requests, chats, requestMessages, contactMessages,
                      notifications, institutions, auditLogs, now, req, res>>

\* createDonations: donor.totalDonations += created.length, lastDonationDate
\* = the last of the dates, donor.save().
SaveTotals(p) ==
    LET run == procs[p]
        donor == [Val(run.donor) EXCEPT
                    !.totalDonations = @ + Len(run.created),
                    !.lastDonationDate = Some(run.donationDates[Len(run.donationDates)])]
    IN /\ run.pc = "saveTotals"
       /\ donors' = SavePaths(donors, donor, {"totalDonations", "lastDonationDate"})
       /\ Goto(p, [run EXCEPT !.pc = "incInstitution", !.donor = Some(donor)])
       /\ UNCHANGED <<users, requests, chats, requestMessages, contactMessages,
                      notifications, donations, institutions, auditLogs, now, req, res>>

\* createDonations: Institution.findByIdAndUpdate(..., { $inc: { totalDonations: 1 } })
\* for the next of the created donations.
IncInstitution(p) ==
    LET run == procs[p]
        donation == run.created[run.counted + 1]
    IN /\ run.pc = "incInstitution"
       /\ institutions' = [ i \in 1..Len(institutions) |->
              IF institutions[i]._id = donation.institution
              THEN [institutions[i] EXCEPT !.totalDonations = @ + 1]
              ELSE institutions[i] ]
       /\ Goto(p, [run EXCEPT !.counted = @ + 1,
                              !.pc = IF run.counted + 1 = Len(run.created)
                                     THEN "done" ELSE "incInstitution"])
       /\ UNCHANGED <<users, donors, requests, chats, requestMessages, contactMessages,
                      notifications, donations, auditLogs, now, req, res>>

-----------------------------------------------------------------------------
(* Specification of the eligibility check over one stored donor. *)

DayOffsets == {-1, 0, 89, 90, 91}
Jitter == (0 - MaxJitter)..MaxJitter

LastDonationInputs ==
    {Null} \cup {Some(T0 - k * DayMs + j) : k \in DayOffsets, j \in Jitter}

DeferralInputs ==
    {Null} \cup {Some(T0 + k * DayMs + j) : k \in {-1, 0, 1, 2}, j \in Jitter}

\* No donation, institution or audit record, and no run in progress.
NoLedger ==
    /\ donations = <<>>
    /\ institutions = <<>>
    /\ auditLogs = <<>>
    /\ procs = <<>>

EmptyStore ==
    /\ users = InitialUsers
    /\ requests = <<>>
    /\ chats = <<>>
    /\ requestMessages = <<>>
    /\ contactMessages = <<>>
    /\ notifications = <<>>
    /\ NoLedger

InitElig ==
    /\ EmptyStore
    /\ now = T0
    /\ res = NoResponse
    /\ req \in [op : {"GET /donors/:id/eligibility"}, header : Headers, id : 1..2]
    /\ \E willing \in BOOLEAN, last \in LastDonationInputs, deferral \in DeferralInputs :
        donors = << Donor(1, 2, willing, "registered", "registered", TRUE, "O-",
                          Some(<<"d">>), last, deferral, FALSE) >>

NextElig == GetEligibility(req.header, req.id)

SpecElig == InitElig /\ [][NextElig]_vars

-----------------------------------------------------------------------------
(* Specification of the donor queries over a store of two donors and one    *)
(* blood request: donor 1 (of user 2) takes every combination of the fields *)
(* the queries read, donor 2 (of user 3) is a willing, eligible donor.      *)

BloodGroups == {"O-", "A+"}

DonorCities == {Null, Some(<<"D", "a">>), Some(<<"a", "d">>)}
RequestCities == {<<"d", "a">>, <<"d", ".">>}

\* lastDonationDate / deferralUntil pairs: never donated; donated 89 days
\* ago; never donated and deferred until the tick after the handler starts.
EligibilityProfiles ==
    { <<Null, Null>>, <<Some(T0 - 89 * DayMs), Null>>, <<Null, Some(T0 + 1)>> }

SearchRequests ==
    [op : {"GET /donors/search"}, header : Headers, bloodGroup : {Null, Some("O-")},
     city : {Null} \cup {Some(c) : c \in RequestCities}]

MatchRequests == [op : {"GET /requests/:id/matches"}, header : Headers, id : 1..2]

InitDonors ==
    /\ users = InitialUsers
    /\ chats = <<>>
    /\ requestMessages = <<>>
    /\ contactMessages = <<>>
    /\ notifications = <<>>
    /\ NoLedger
    /\ now = T0
    /\ res = NoResponse
    /\ req \in SearchRequests \cup MatchRequests
    /\ \E willing \in BOOLEAN, vis \in Visibilities, phoneVis \in Visibilities,
          bg \in BloodGroups, city \in DonorCities, deleted \in BOOLEAN,
          ep \in EligibilityProfiles :
        donors = << Donor(1, 2, willing, vis, phoneVis, TRUE, bg, city, ep[1], ep[2], deleted),
                    Donor(2, 3, TRUE, "public", "registered", TRUE, "O-", Some(<<"D", "a">>),
                          Null, Null, FALSE) >>
    /\ \E city \in RequestCities :
        requests = << [_id |-> 1, user |-> 2, requestNumber |-> 1, bloodGroup |-> "O-",
                       city |-> city, status |-> "open", isDeleted |-> FALSE] >>

NextDonors ==
    \/ req.op = "GET /donors/search" /\ Search(req.header, req.bloodGroup, req.city)
    \/ req.op = "GET /requests/:id/matches" /\ GetMatches(req.header, req.id)

SpecDonors == InitDonors /\ [][NextDonors]_vars

-----------------------------------------------------------------------------
(* Specification of one message-send call over a store of one donor (of     *)
(* user 2, with every combination of the consent and soft-delete flags) and *)
(* one blood request (of user 2).                                           *)

MessageInputs == {Null, Some(<<" ">>), Some(<<"h", " ">>)}

PostContactRequests ==
    [op : {"POST /contact"}, header : Headers, donorId : 0..2,
     requestId : {Null, Some(0), Some(1), Some(2)}, message : MessageInputs]

ChatSendRequests ==
    [op : {"POST /chats/:id/messages"}, header : Headers,
     chatId : {ChatId(n) : n \in 0..1}
              \cup {ContactChatId(u, d) : u \in {0, 2, 3}, d \in 0..2},
     message : MessageInputs]

RequestContactRequests ==
    [op : {"POST /requests/:id/contact"}, header : Headers, id : 0..2,
     message : MessageInputs]

\* The blood request with _id 1, of user 2.
Request1 ==
    [_id |-> 1, user |-> 2, requestNumber |-> 1, bloodGroup |-> "O-",
     city |-> <<"d", "a">>, status |-> "open", isDeleted |-> FALSE]

InitSend ==
    /\ users = InitialUsers
    /\ requests = << Request1 >>
    /\ chats = <<>>
    /\ requestMessages = <<>>
    /\ contactMessages = <<>>
    /\ notifications = <<>>
    /\ NoLedger
    /\ now = T0
    /\ res = NoResponse
    /\ req \in PostContactRequests \cup ChatSendRequests \cup RequestContactRequests
    /\ \E allowContact \in BOOLEAN, deleted \in BOOLEAN :
        donors = << Donor(1, 2, TRUE, "public", "public", allowContact, "O-",
                          Some(<<"D", "a">>), Null, Null, deleted) >>

\* The request is served once.
Pending == res.op = "none"

NextSend ==
    \/ /\ Pending /\ req.op = "POST /contact"
       /\ PostContact(req.header, req.donorId, req.requestId, req.message)
    \/ /\ Pending /\ req.op = "POST /chats/:id/messages"
       /\ ChatSend(req.header, req.chatId, req.message)
    \/ /\ Pending /\ req.op = "POST /requests/:id/contact"
       /\ RequestContact(req.header, req.id, req.message)

SpecSend == InitSend /\ [][NextSend]_vars

-----------------------------------------------------------------------------
(* Specification of the request chats: users contact the owner of request 1 *)
(* (user 2), send in the chats, pause and resume them, in any order.        *)

MaxMessages == 2   \* messages the runs create

NoRequest == [op |-> "none"]

\* The callers: nobody logged in, the owner of request 1 (user 2), user 3.
ChatCallers == {Null} \cup {Some(t) : t \in {k \in Tokens : k.id \in {2, 3}}}

ChatMessages == {Some(<<" ">>), Some(<<"h", " ">>)}

\* Chat ids the calls name: every chat the runs can create and one more.
ChatIds == 1..(MaxMessages + 1)

\* The calls are made as long as the messages they create fit the bound.
WithinBound == Len(requestMessages') + Len(contactMessages') <= MaxMessages

InitChat ==
    /\ users = InitialUsers
    /\ donors = << Donor(1, 3, TRUE, "public", "public", TRUE, "O-",
                         Some(<<"D", "a">>), Null, Null, FALSE) >>
    /\ requests = << Request1 >>
    /\ chats = <<>>
    /\ requestMessages = <<>>
    /\ contactMessages = <<>>
    /\ notifications = <<>>
    /\ NoLedger
    /\ now = T0
    /\ req = NoRequest
    /\ res = NoResponse

NextChat ==
    \/ \E header \in ChatCallers, id \in 1..2, message \in ChatMessages :
         RequestContact(header, id, message) /\ WithinBound
    \/ \E header \in ChatCallers, message \in ChatMessages,
          id \in {ChatId(n) : n \in ChatIds} \cup {ContactChatId(2, 1)} :
         ChatSend(header, id, message) /\ WithinBound
    \/ \E header \in ChatCallers, id \in ChatIds : Pause(header, id)
    \/ \E header \in ChatCallers, id \in ChatIds : Unpause(header, id)

SpecChat == InitChat /\ [][NextChat]_vars

-----------------------------------------------------------------------------
(* Specification of the status updates of request 1 (of user 2), by every   *)
(* caller, with every status value, in any order.                           *)

MaxAudit == 2   \* audit records the runs create

\* Status values of the request body: the enum and a value outside it.
StatusInputs == allowedStatuses \cup {"pending"}

InitStatus ==
    /\ users = InitialUsers
    /\ donors = <<>>
    /\ requests = << Request1 >>
    /\ chats = <<>>
    /\ requestMessages = <<>>
    /\ contactMessages = <<>>
    /\ notifications = <<>>
    /\ NoLedger
    /\ now = T0
    /\ req = NoRequest
    /\ res = NoResponse

NextStatus ==
    \E header \in Headers, id \in 0..2, status \in StatusInputs :
        UpdateRequestStatus(header, id, status) /\ Len(auditLogs') <= MaxAudit

SpecStatus == InitStatus /\ [][NextStatus]_vars

-----------------------------------------------------------------------------
(* The request chats with a clock that advances between the calls. *)

MaxTicks == 1   \* ticks of the clock in a run

Tick ==
    /\ now < T0 + MaxTicks
    /\ now' = now + 1
    /\ UNCHANGED <<store, req, res>>

NextChatClock == NextChat \/ Tick

SpecChatClock == InitChat /\ [][NextChatClock]_vars

-----------------------------------------------------------------------------
(* Specification of the donation recordings: runs of the seeding script for *)
(* user 2, whose donor profile exists, started at any time.                 *)

MaxRuns == 2   \* runs of the script

Institution1 == [_id |-> 1, name |-> "name", totalDonations |-> 0, isDeleted |-> FALSE]

InitDonations ==
    /\ users = InitialUsers
    /\ donors = << Donor(1, 2, TRUE, "public", "registered", TRUE, "O-",
                         Some(<<"D", "a">>), Null, Null, FALSE) >>
    /\ requests = <<>>
    /\ chats = <<>>
    /\ requestMessages = <<>>
    /\ contactMessages = <<>>
    /\ notifications = <<>>
    /\ donations = <<>>
    /\ institutions = << Institution1 >>
    /\ auditLogs = <<>>
    /\ procs = <<>>
    /\ now = T0
    /\ req = NoRequest
    /\ res = NoResponse

NextDonations ==
    \/ Len(procs) < MaxRuns /\ StartRun(2)
    \/ \E p \in 1..Len(procs) : FindDonor(p)
    \/ \E p \in 1..Len(procs) : SaveDonor(p)
    \/ \E p \in 1..Len(procs) : SaveDonation(p)
    \/ \E p \in 1..Len(procs) : SaveTotals(p)
    \/ \E p \in 1..Len(procs) : IncInstitution(p)
    \/ Tick

SpecDonations == InitDonations /\ [][NextDonations]_vars

-----------------------------------------------------------------------------
(* The sends of SpecChat and POST /contact with database writes that fail:  *)
(* each call names the write the database rejects, or none.                *)

NextFaults ==
    \/ \E header \in ChatCallers, id \in 1..2, message \in ChatMessages, fault \in Faults :
         RequestContactWith(header, id, message, fault) /\ WithinBound
    \/ \E header \in ChatCallers, message \in ChatMessages, fault \in Faults,
          id \in {ChatId(n) : n \in ChatIds} \cup {ContactChatId(2, 1)} :
         ChatSendWith(header, id, message, fault) /\ WithinBound
    \/ \E header \in ChatCallers, message \in ChatMessages, fault \in Faults :
         PostContactWith(header, 1, Null, message, fault) /\ WithinBound

SpecFaults == InitChat /\ [][NextFaults]_vars

-----------------------------------------------------------------------------
(* POST /requests (creation of a blood request) *)

\* body.complete: the required fields of the body are given.
CreateRequest(header, body) ==
    LET a == auth(header)
        op == "POST /requests"
        mine(r) == r.user = a.user.id /\ r.isDeleted = FALSE
        count == Len(SelectSeq(requests, mine))
        bloodRequest == [_id |-> NextId(requests), user |-> a.user.id,
                         requestNumber |-> count + 1, bloodGroup |-> body.bloodGroup,
                         city |-> body.city, status |-> "open", isDeleted |-> FALSE]
    IN IF a.status # 200
       THEN res' = [op |-> op, status |-> a.status, header |-> header]
            /\ UNCHANGED <<store, now, req>>
       ELSE IF ~body.complete
       THEN res' = [op |-> op, status |-> 400, header |-> header]
            /\ UNCHANGED <<store, now, req>>
       ELSE /\ requests' = Append(requests, bloodRequest)
            /\ \E clk \in MatchClockReads(bloodRequest, a.user.role, now) :
                 res' = [op |-> op, status |-> 201, header |-> header, user |-> a.user,
                         request |-> bloodRequest,
                         clk |-> ReadsMade(bloodRequest, a.user.role, clk),
                         data |-> findMatchingDonors(bloodRequest, a.user.role,
                                                     Some(a.user.id), clk)]
            /\ UNCHANGED <<ledger, users, donors, chats, requestMessages, contactMessages,
                           notifications, now, req>>

\* SpecRequests: the users create blood requests for O- in Dhaka; donor 1 (of
\* user 3) matches them when eligible, donor 2 (of the admin) has another
\* blood group.
MaxRequests == 2

RequestBodies == [complete : BOOLEAN, bloodGroup : {"O-"}, city : {<<"d", "a">>}]

InitRequests ==
    /\ users = InitialUsers
    /\ \E allowContact \in BOOLEAN, ep \in EligibilityProfiles, vis \in Visibilities :
         donors = << Donor(1, 3, TRUE, vis, "registered", allowContact, "O-",
                           Some(<<"D", "a">>), ep[1], ep[2], FALSE),
                     Donor(2, 1, TRUE, "public", "registered", TRUE, "A+",
                           Some(<<"D", "a">>), Null, Null, FALSE) >>
    /\ requests = <<>>
    /\ chats = <<>>
    /\ requestMessages = <<>>
    /\ contactMessages = <<>>
    /\ notifications = <<>>
    /\ NoLedger
    /\ now = T0
    /\ req = NoRequest
    /\ res = NoResponse

NextRequests ==
    \E header \in Headers, body \in RequestBodies :
        Len(requests) < MaxRequests /\ CreateRequest(header, body)

SpecRequests == InitRequests /\ [][NextRequests]_vars

-----------------------------------------------------------------------------
(* donor.toSafeObject(viewerRole, viewerId) applied once to a stored donor, *)
(* for every viewer role and viewer id.                                     *)

\* The roles the callers pass: the normalised ones and the role of the token.
ViewerRoles == {"admin", "guest", "registered", "user"}

ViewerIds == {Null, Some(2), Some(3)}

ViewRequests == [op : {"toSafeObject"}, viewerRole : ViewerRoles, viewerId : ViewerIds]

\* The call and what it returned: the donor, the viewer, the clock reads of
\* the eligibility computation and the view.
ToSafeObject(viewerRole, viewerId) ==
    /\ Pending
    /\ \E clk \in ClockReads(now, 3) :
         res' = [op |-> "toSafeObject", status |-> 200, header |-> Null,
                 donor |-> donors[1], viewerRole |-> viewerRole, viewerId |-> viewerId,
                 clk |-> clk, view |-> toSafeObject(donors[1], viewerRole, viewerId, clk)]
    /\ UNCHANGED <<store, now, req>>

InitView ==
    /\ users = InitialUsers
    /\ \E user \in {2, 3}, willing \in BOOLEAN, vis \in Visibilities, phoneVis \in Visibilities,
          allowContact \in BOOLEAN, deleted \in BOOLEAN, ep \in EligibilityProfiles :
         donors = << Donor(1, user, willing, vis, phoneVis, allowContact, "O-",
                           Some(<<"D", "a">>), ep[1], ep[2], deleted) >>
    /\ requests = <<>>
    /\ chats = <<>>
    /\ requestMessages = <<>>
    /\ contactMessages = <<>>
    /\ notifications = <<>>
    /\ NoLedger
    /\ now = T0
    /\ req \in ViewRequests
    /\ res = NoResponse

NextView == req.op = "toSafeObject" /\ ToSafeObject(req.viewerRole, req.viewerId)

SpecView == InitView /\ [][NextView]_vars

-----------------------------------------------------------------------------
(* User management by the admins: PUT /users/:id/role, PUT /users/:id/status *)
(* and DELETE /users/:id. Each handler awaits User.findById, then           *)
(* User.countDocuments, then targetUser.save(); the calls in progress       *)
(* between these awaits are runs in procs.                                  *)

\* The id of the path: the ObjectId it denotes and whether it is spelled as
\* ObjectId.toString() spells it (lower-case hex). isValidObjectId and the
\* casts of the queries accept both spellings.
PathId(oid, canonical) == [oid |-> oid, canonical |-> canonical]

\* id === req.user.id, a comparison of strings.
SameIdString(id, userId) == id.canonical /\ id.oid = userId

\* auth followed by requireAdmin.
requireAdmin(header) ==
    LET a == auth(header)
    IN IF a.status # 200 THEN a
       ELSE IF a.user.role # "admin" THEN [status |-> 403]
       ELSE a

\* The part of the three handlers before their first await: op is "role",
\* "status" or "delete", value the role or isActive of the body (Null for
\* delete), valid whether the body passes the handler's validation, and self
\* whether the handler refuses the change on the caller's own account.
ManageUser(header, op, id, value, valid, self) ==
    LET a == requireAdmin(header)
        target == [id |-> id, value |-> value]
        out(status, user) == Response(op, status, header, user, target, <<>>, Null)
        reject(status) == res' = out(status, Some(a.user.id)) /\ UNCHANGED <<store, now, req>>
    IN IF a.status # 200
       THEN res' = out(a.status, Null) /\ UNCHANGED <<store, now, req>>
       ELSE IF ~isValidObjectId(id.oid) THEN reject(400)
       ELSE IF ~valid THEN reject(400)
       ELSE IF SameIdString(id, a.user.id) /\ self THEN reject(400)
       ELSE /\ procs' = Append(procs, [pc |-> "findById", op |-> op, header |-> header,
                                       user |-> a.user, id |-> id, value |-> value,
                                       targetUser |-> Null])
            /\ UNCHANGED <<users, donors, requests, chats, requestMessages, contactMessages,
                           notifications, donations, institutions, auditLogs, now, req, res>>

\* PUT /:id/role with body { role }.
UpdateUserRole(header, id, role) ==
    ManageUser(header, "PUT /users/:id/role", id, Some(role), role \in {"admin", "user"},
               role # "admin")

\* PUT /:id/status (user) with body { isActive }; a body without a boolean
\* isActive is isActive = Null.
UpdateUserStatus(header, id, isActive) ==
    ManageUser(header, "PUT /users/:id/status", id, isActive, isActive # Null,
               isActive = Some(FALSE))

\* DELETE /:id (user).
DeleteUser(header, id) ==
    ManageUser(header, "DELETE /users/:id", id, Null, TRUE, TRUE)

\* The change of the run takes the admin role or the active state from its
\* target, an admin: the handler counts the other active admins first.
RemovesAdmin(run) ==
    /\ Val(run.targetUser).role = "admin"
    /\ \/ run.op = "PUT /users/:id/role" /\ run.value = Some("user")
       \/ run.op = "PUT /users/:id/status" /\ run.value = Some(FALSE)
       \/ run.op = "DELETE /users/:id"

\* User.findById(id) of the three handlers.
FindTargetUser(p) ==
    LET run == procs[p]
        found == FindById(users, run.id.oid)
        target == [id |-> run.id, value |-> run.value]
    IN /\ run.pc = "findById"
       /\ IF found = Null
          THEN /\ procs' = [procs EXCEPT ![p] = [run EXCEPT !.pc = "done"]]
               /\ res' = Response(run.op, 404, run.header, Some(run.user.id), target, <<>>, Null)
          ELSE /\ procs' = [procs EXCEPT ![p] =
                     [run EXCEPT !.targetUser = found,
                                 !.pc = IF RemovesAdmin([run EXCEPT !.targetUser = found])
                                        THEN "countDocuments" ELSE "save"]]
               /\ UNCHANGED res
       /\ UNCHANGED <<users, donors, requests, chats, requestMessages, contactMessages,
                      notifications, donations, institutions, auditLogs, now, req>>

\* User.countDocuments({ role: "admin", isActive: { $ne: false }, _id: { $ne: id } }).
otherAdmins(id) ==
    Cardinality({ i \in 1..Len(users) :
        users[i].role = "admin" /\ users[i].isActive # FALSE /\ users[i]._id # id.oid })

CountOtherAdmins(p) ==
    LET run == procs[p]
        target == [id |-> run.id, value |-> run.value]
    IN /\ run.pc = "countDocuments"
       /\ IF otherAdmins(run.id) = 0
          THEN /\ procs' = [procs EXCEPT ![p] = [run EXCEPT !.pc = "done"]]
               /\ res' = Response(run.op, 400, run.header, Some(run.user.id), target, <<>>, Null)
          ELSE /\ procs' = [procs EXCEPT ![p] = [run EXCEPT !.pc = "save"]]
               /\ UNCHANGED res
       /\ UNCHANGED <<users, donors, requests, chats, requestMessages, contactMessages,
                      notifications, donations, institutions, auditLogs, now, req>>

\* targetUser.save() (the paths the handler assigned), AuditLog.create and
\* the response.
SaveTargetUser(p) ==
    LET run == procs[p]
        target == [id |-> run.id, value |-> run.value]
        action == IF run.op = "PUT /users/:id/role" THEN "update_user_role"
                  ELSE IF run.value = Some(TRUE) THEN "activate_user" ELSE "deactivate_user"
        saved(u) == IF u._id # run.id.oid THEN u
                    ELSE IF run.op = "PUT /users/:id/role" THEN [u EXCEPT !.role = Val(run.value)]
                    ELSE IF run.op = "PUT /users/:id/status"
                    THEN [u EXCEPT !.isActive = Val(run.value)]
                    ELSE [u EXCEPT !.isActive = FALSE]
    IN /\ run.pc = "save"
       /\ procs' = [procs EXCEPT ![p] = [run EXCEPT !.pc = "done"]]
       /\ users' = [ i \in 1..Len(users) |-> saved(users[i]) ]
       /\ auditLogs' = Append(auditLogs,
              AuditLog(run.user.id, action, "User", run.id.oid, [value |-> run.value]))
       /\ res' = Response(run.op, 200, run.header, Some(run.user.id), target, <<>>, Null)
       /\ UNCHANGED <<donors, requests, chats, requestMessages, contactMessages,
                      notifications, donations, institutions, now, req>>

\* SpecUsers: users 1 and 2 are active admins, user 3 is a user (an admin when
\* drawn so); at most MaxAdminCalls management calls pass their checks, in any
\* interleaving.
MaxAdminCalls == 2

UserCallers == {Some(t) : t \in {[id |-> i, role |-> "admin", valid |-> TRUE] : i \in 1..3}}

\* The ids of the paths: users 1 and 2 as the tokens spell them, and user 1
\* in another spelling.
PathIds == {PathId(1, TRUE), PathId(2, TRUE), PathId(1, FALSE)}

InitUsers ==
    /\ \E second \in {"admin", "user"} :
         users = << [_id |-> 1, role |-> "admin", isActive |-> TRUE],
                    [_id |-> 2, role |-> second, isActive |-> TRUE],
                    [_id |-> 3, role |-> "user", isActive |-> TRUE] >>
    /\ donors = <<>>
    /\ requests = <<>>
    /\ chats = <<>>
    /\ requestMessages = <<>>
    /\ contactMessages = <<>>
    /\ notifications = <<>>
    /\ NoLedger
    /\ now = T0
    /\ req = NoRequest
    /\ res = NoResponse

NextUsers ==
    \/ \E header \in UserCallers, id \in PathIds, role \in {"admin", "user", "owner"} :
         Len(procs) < MaxAdminCalls /\ UpdateUserRole(header, id, role)
    \/ \E header \in UserCallers, id \in PathIds, isActive \in {Null, Some(TRUE), Some(FALSE)} :
         Len(procs) < MaxAdminCalls /\ UpdateUserStatus(header, id, isActive)
    \/ \E header \in UserCallers, id \in PathIds :
         Len(procs) < MaxAdminCalls /\ DeleteUser(header, id)
    \/ \E p \in 1..Len(procs) : FindTargetUser(p)
    \/ \E p \in 1..Len(procs) : CountOtherAdmins(p)
    \/ \E p \in 1..Len(procs) : SaveTargetUser(p)

SpecUsers == InitUsers /\ [][NextUsers]_vars

-----------------------------------------------------------------------------
(* GET /chats/:id/messages *)

ListMessages(header, id) ==
    LET a == auth(header)
        op == "GET /chats/:id/messages"
        out(status, user, chat) == Response(op, status, header, user, id, <<>>, chat)
        reject(status) == res' = out(status, Some(a.user.id), Null)
        listed(messages, chat) == [data |-> messages] @@ out(200, Some(a.user.id), chat)
    IN /\ IF a.status # 200 THEN res' = out(a.status, Null, Null)
          ELSE IF id.contact
          THEN LET ofThread(c) == c.fromUser = id.fromUserId /\ c.toDonor = id.donorId
               IN IF ~isValidObjectId(id.fromUserId) \/ ~isValidObjectId(id.donorId)
                  THEN reject(400)
                  ELSE IF id.fromUserId # a.user.id THEN reject(403)
                  ELSE IF FindById(donors, id.donorId) = Null THEN reject(404)
                  ELSE res' = listed(SelectSeq(contactMessages, ofThread), Null)
          ELSE LET m == ensureMember(id.id, a.user.id)
               IN IF m.error # 0 THEN reject(m.error)
                  ELSE LET chat == Val(m.chat)
                           notMe(p) == p # a.user.id
                           other == First(SelectSeq(populate(chat.participants), notMe))
                           shown(msg) ==
                               /\ msg.request = chat.request
                               /\ IF other # Null
                                  THEN \/ msg.fromUser = a.user.id /\ msg.toUser = Val(other)
                                       \/ msg.fromUser = Val(other) /\ msg.toUser = a.user.id
                                  ELSE msg.fromUser = a.user.id \/ msg.toUser = a.user.id
                       IN res' = listed(SelectSeq(requestMessages, shown), Some(chat._id))
       /\ UNCHANGED <<store, now, req>>

\* SpecMembers: one call of a chat route by every caller, on chat 1 of users
\* 2 and 3 about request 1 (one message sent, paused by any of its
\* participants) and on the contact threads to donor 1 of user 3.
MemberRequests ==
    [op : {"GET /chats/:id/messages", "POST /chats/:id/messages", "POST /chats/:id/pause",
           "POST /chats/:id/unpause"},
     header : Headers,
     chatId : {ChatId(1), ChatId(2), ContactChatId(2, 1), ContactChatId(3, 1),
               ContactChatId(1, 1)},
     message : ChatMessages]

InitMembers ==
    /\ users = InitialUsers
    /\ donors = << Donor(1, 3, TRUE, "public", "public", TRUE, "O-",
                         Some(<<"D", "a">>), Null, Null, FALSE) >>
    /\ requests = << Request1 >>
    /\ now = T0
    /\ requestMessages = << [_id |-> 1, fromUser |-> 3, toUser |-> 2, request |-> 1,
                             message |-> <<"h">>, createdAt |-> T0] >>
    /\ \E pausedBy \in {<<>>, <<2>>, <<3>>, <<2, 3>>} :
         chats = << [_id |-> 1, request |-> 1, participants |-> <<2, 3>>,
                     pausedBy |-> pausedBy,
                     lastMessage |-> Some([text |-> <<"h">>, fromUser |-> 3,
                                           createdAt |-> T0]),
                     createdAt |-> T0, updatedAt |-> T0] >>
    /\ contactMessages = << [_id |-> 1, fromUser |-> 2, toDonor |-> 1,
                             relatedRequest |-> Null, message |-> <<"h">>,
                             createdAt |-> T0] >>
    /\ notifications = <<>>
    /\ NoLedger
    /\ req \in MemberRequests
    /\ res = NoResponse

NextMembers ==
    \/ /\ Pending /\ req.op = "GET /chats/:id/messages"
       /\ ListMessages(req.header, req.chatId)
    \/ /\ Pending /\ req.op = "POST /chats/:id/messages"
       /\ ChatSend(req.header, req.chatId, req.message)
    \/ /\ Pending /\ req.op = "POST /chats/:id/pause" /\ ~req.chatId.contact
       /\ Pause(req.header, req.chatId.id)
    \/ /\ Pending /\ req.op = "POST /chats/:id/unpause" /\ ~req.chatId.contact
       /\ Unpause(req.header, req.chatId.id)

SpecMembers == InitMembers /\ [][NextMembers]_vars

-----------------------------------------------------------------------------
(* POST /chats/:id/pause and /unpause as the two awaits they are:           *)
(* ensureMember loads the chat, chat.save() writes it back. The calls in    *)
(* progress between the two are runs in procs.                              *)

\* ensureMember of the two handlers; the run keeps the chat document it
\* loaded. stale: another save has replaced the pausedBy array of the stored
\* chat since the load, so the version of the loaded document is behind.
LoadChat(header, id, op) ==
    LET a == auth(header)
        m == ensureMember(id, a.user.id)
        out(status, user, chat) == Response(op, status, header, user, ChatId(id), <<>>, chat)
    IN IF a.status # 200
       THEN res' = out(a.status, Null, Null) /\ UNCHANGED <<store, now, req>>
       ELSE IF m.error # 0
       THEN res' = out(m.error, Some(a.user.id), Null) /\ UNCHANGED <<store, now, req>>
       ELSE /\ procs' = Append(procs, [pc |-> "save", op |-> op, header |-> header,
                                       user |-> a.user, chat |-> Val(m.chat),
                                       stale |-> FALSE])
            /\ UNCHANGED <<users, donors, requests, chats, requestMessages, contactMessages,
                           notifications, donations, institutions, auditLogs, now, req, res>>

PauseLoad(header, id) == LoadChat(header, id, "POST /chats/:id/pause")

UnpauseLoad(header, id) == LoadChat(header, id, "POST /chats/:id/unpause")

\* chat.save() of a document whose pausedBy was assigned a new array: the
\* array is written whole, under the version of the loaded document. The
\* save of a stale document fails (VersionError) and writes nothing; a save
\* that succeeds makes the other loaded copies of the chat stale.
SavePausedBy(p, pausedBy) ==
    LET run == procs[p]
        out(status) == Response(run.op, status, run.header, Some(run.user.id),
                                ChatId(run.chat._id), <<>>, Some(run.chat._id))
        written(c) == IF c._id = run.chat._id
                      THEN [c EXCEPT !.pausedBy = pausedBy, !.updatedAt = now] ELSE c
        after(q) == IF q = p THEN [run EXCEPT !.pc = "done"]
                    ELSE IF procs[q].pc = "save" /\ procs[q].chat._id = run.chat._id
                    THEN [procs[q] EXCEPT !.stale = TRUE]
                    ELSE procs[q]
    IN IF run.stale
       THEN /\ res' = out(500)
            /\ procs' = [procs EXCEPT ![p] = [run EXCEPT !.pc = "done"]]
            /\ UNCHANGED chats
       ELSE /\ res' = out(200)
            /\ chats' = [ i \in 1..Len(chats) |-> written(chats[i]) ]
            /\ procs' = [ q \in 1..Len(procs) |-> after(q) ]

\* chat.save() of a document whose pausedBy is as loaded: only updatedAt is
\* written.
SaveUpdatedAt(p) ==
    LET run == procs[p]
        written(c) == IF c._id = run.chat._id THEN [c EXCEPT !.updatedAt = now] ELSE c
    IN /\ res' = Response(run.op, 200, run.header, Some(run.user.id),
                          ChatId(run.chat._id), <<>>, Some(run.chat._id))
       /\ chats' = [ i \in 1..Len(chats) |-> written(chats[i]) ]
       /\ procs' = [procs EXCEPT ![p] = [run EXCEPT !.pc = "done"]]

\* The rest of POST /:id/pause: nothing is saved when the loaded chat is
\* already paused by the caller.
PauseSave(p) ==
    LET run == procs[p]
        alreadyPaused == run.user.id \in Range(run.chat.pausedBy)
    IN /\ run.pc = "save" /\ run.op = "POST /chats/:id/pause"
       /\ IF alreadyPaused
          THEN /\ res' = Response(run.op, 200, run.header, Some(run.user.id),
                                  ChatId(run.chat._id), <<>>, Some(run.chat._id))
               /\ procs' = [procs EXCEPT ![p] = [run EXCEPT !.pc = "done"]]
               /\ UNCHANGED chats
          ELSE SavePausedBy(p, Append(run.chat.pausedBy, run.user.id))
       /\ UNCHANGED <<users, donors, requests, requestMessages, contactMessages,
                      notifications, donations, institutions, auditLogs, now, req>>

\* The rest of POST /:id/unpause.
UnpauseSave(p) ==
    LET run == procs[p]
        notMe(u) == u # run.user.id
        pausedBy == SelectSeq(run.chat.pausedBy, notMe)
    IN /\ run.pc = "save" /\ run.op = "POST /chats/:id/unpause"
       /\ IF pausedBy = run.chat.pausedBy THEN SaveUpdatedAt(p) ELSE SavePausedBy(p, pausedBy)
       /\ UNCHANGED <<users, donors, requests, requestMessages, contactMessages,
                      notifications, donations, institutions, auditLogs, now, req>>

\* SpecPause: users 2 and 3, the participants of chat 1, and the admin, who is
\* none, pause and unpause chat 1; at most MaxPauseCalls calls load the chat.
MaxPauseCalls == 3

PauseCallers == {Some(t) : t \in Tokens}

InitPause ==
    /\ users = InitialUsers
    /\ donors = <<>>
    /\ requests = << Request1 >>
    /\ chats = << [_id |-> 1, request |-> 1, participants |-> <<2, 3>>, pausedBy |-> <<>>,
                   lastMessage |-> Null, createdAt |-> T0, updatedAt |-> T0] >>
    /\ requestMessages = <<>>
    /\ contactMessages = <<>>
    /\ notifications = <<>>
    /\ NoLedger
    /\ now = T0
    /\ req = NoRequest
    /\ res = NoResponse

NextPause ==
    \/ \E header \in PauseCallers, id \in 1..2 :
         Len(procs) < MaxPauseCalls /\ PauseLoad(header, id)
    \/ \E header \in PauseCallers, id \in 1..2 :
         Len(procs) < MaxPauseCalls /\ UnpauseLoad(header, id)
    \/ \E p \in 1..Len(procs) : PauseSave(p)
    \/ \E p \in 1..Len(procs) : UnpauseSave(p)

SpecPause == InitPause /\ [][NextPause]_vars

-----------------------------------------------------------------------------
(* POST /chats/:id/messages on a request chat as the awaits it is: the      *)
(* message is created, then the snapshot is saved. The sends in progress    *)
(* between the two are runs in procs.                                       *)

\* The handler up to RequestMessage.create.
MessageCreate(header, id, message) ==
    LET a == auth(header)
        op == "POST /chats/:id/messages"
        cleanMessage == cleanMessageOf(message)
        m == ensureMember(id, a.user.id)
        out(status, user, chat) ==
            Response(op, status, header, user, ChatId(id), cleanMessage, chat)
        reject(status) == res' = out(status, Some(a.user.id), Null)
                          /\ UNCHANGED <<store, now, req>>
    IN IF a.status # 200
       THEN res' = out(a.status, Null, Null) /\ UNCHANGED <<store, now, req>>
       ELSE IF cleanMessage = <<>> THEN reject(400)
       ELSE IF m.error # 0 THEN reject(m.error)
       ELSE LET chat == Val(m.chat)
                notMe(p) == p # a.user.id
                other == First(SelectSeq(populate(chat.participants), notMe))
                msg == RequestMessage(a.user.id, Val(other), chat.request, cleanMessage)
            IN IF chat.pausedBy # <<>> THEN reject(403)
               ELSE IF other = Null THEN reject(400)
               ELSE /\ requestMessages' = Append(requestMessages, msg)
                    /\ procs' = Append(procs, [pc |-> "save", header |-> header,
                                               user |-> a.user, chat |-> chat, msg |-> msg])
                    /\ UNCHANGED <<users, donors, requests, chats, contactMessages,
                                   notifications, donations, institutions, auditLogs,
                                   now, req, res>>

\* chat.save() with the snapshot of the message of the run (lastMessage and
\* updatedAt are the paths written), Notification.create and the response.
SnapshotSave(p) ==
    LET run == procs[p]
        written(c) == IF c._id = run.chat._id
                      THEN [c EXCEPT !.lastMessage =
                                Some([text |-> run.msg.message, fromUser |-> run.user.id,
                                      createdAt |-> run.msg.createdAt]),
                                     !.updatedAt = now]
                      ELSE c
    IN /\ run.pc = "save"
       /\ procs' = [procs EXCEPT ![p] = [run EXCEPT !.pc = "done"]]
       /\ chats' = [ i \in 1..Len(chats) |-> written(chats[i]) ]
       /\ notifications' = Append(notifications,
              Notification(run.msg.toUser, Null, "chat_message", Null,
                           Some(run.chat.request), Some(run.msg._id), Some(run.chat._id)))
       /\ res' = Response("POST /chats/:id/messages", 201, run.header, Some(run.user.id),
                          ChatId(run.chat._id), run.msg.message, Some(run.chat._id))
       /\ UNCHANGED <<users, donors, requests, requestMessages, contactMessages,
                      donations, institutions, auditLogs, now, req>>

\* SpecSends: users 2 and 3 send in their chat 1, the clock advancing between
\* the steps; at most MaxSends messages are created.
MaxSends == 2

InitSends ==
    /\ users = InitialUsers
    /\ donors = <<>>
    /\ requests = << Request1 >>
    /\ chats = << [_id |-> 1, request |-> 1, participants |-> <<2, 3>>, pausedBy |-> <<>>,
                   lastMessage |-> Null, createdAt |-> T0, updatedAt |-> T0] >>
    /\ requestMessages = <<>>
    /\ contactMessages = <<>>
    /\ notifications = <<>>
    /\ NoLedger
    /\ now = T0
    /\ req = NoRequest
    /\ res = NoResponse

NextSends ==
    \/ \E header \in ChatCallers, id \in 1..2, message \in ChatMessages :
         Len(procs) < MaxSends /\ MessageCreate(header, id, message)
    \/ \E p \in 1..Len(procs) : SnapshotSave(p)
    \/ Tick

SpecSends == InitSends /\ [][NextSends]_vars

-----------------------------------------------------------------------------
(* POST /requests/:id/contact as the awaits it is: the request and the chat *)
(* of the pair are looked up, then the chat is created when none was found  *)
(* and the message, the snapshot and the notification are written.          *)

\* The handler up to RequestChat.findOne.
ContactLookup(header, id, message) ==
    LET a == auth(header)
        op == "POST /requests/:id/contact"
        cleanMessage == cleanMessageOf(message)
        bloodRequest == FindLive(requests, id)
        out(status, user) == Response(op, status, header, user, id, cleanMessage, Null)
        reject(status) == res' = out(status, Some(a.user.id))
                          /\ UNCHANGED <<store, now, req>>
    IN IF a.status # 200
       THEN res' = out(a.status, Null) /\ UNCHANGED <<store, now, req>>
       ELSE IF cleanMessage = <<>> THEN reject(400)
       ELSE IF ~isValidObjectId(id) THEN reject(400)
       ELSE IF bloodRequest = Null THEN reject(404)
       ELSE LET owner == Val(bloodRequest).user
                participants == SortPair(a.user.id, owner)
                ofPair(c) == /\ c.request = id
                             /\ Range(participants) \subseteq Range(c.participants)
            IN /\ procs' = Append(procs, [pc |-> "create", header |-> header, user |-> a.user,
                                          request |-> id, owner |-> owner,
                                          participants |-> participants,
                                          message |-> cleanMessage,
                                          found |-> First(SelectSeq(chats, ofPair))])
               /\ UNCHANGED <<users, donors, requests, chats, requestMessages, contactMessages,
                              notifications, donations, institutions, auditLogs,
                              now, req, res>>

\* RequestChat.create when the lookup found no chat, and the rest of the
\* handler; chat.save() writes lastMessage and updatedAt.
ContactFinish(p) ==
    LET run == procs[p]
        op == "POST /requests/:id/contact"
        chat == IF run.found = Null THEN RequestChat(run.request, run.participants)
                ELSE Val(run.found)
        withChat == IF run.found = Null THEN Append(chats, chat) ELSE chats
        msg == RequestMessage(run.user.id, run.owner, run.request, run.message)
        written(c) == IF c._id = chat._id
                      THEN [c EXCEPT !.lastMessage =
                                Some([text |-> msg.message, fromUser |-> run.user.id,
                                      createdAt |-> msg.createdAt]),
                                     !.updatedAt = now]
                      ELSE c
        out(status) == Response(op, status, run.header, Some(run.user.id), run.request,
                                run.message, Some(chat._id))
    IN /\ run.pc = "create"
       /\ procs' = [procs EXCEPT ![p] = [run EXCEPT !.pc = "done"]]
       /\ IF chat.pausedBy # <<>>
          THEN /\ chats' = withChat
               /\ res' = out(403)
               /\ UNCHANGED <<requestMessages, notifications>>
          ELSE /\ requestMessages' = Append(requestMessages, msg)
               /\ chats' = [ i \in 1..Len(withChat) |-> written(withChat[i]) ]
               /\ notifications' = Append(notifications,
                      Notification(run.owner, Null, "request_message", Null,
                                   Some(run.request), Some(msg._id), Some(chat._id)))
               /\ res' = out(201)
       /\ UNCHANGED <<users, donors, requests, contactMessages, donations, institutions,
                      auditLogs, now, req>>

\* SpecContacts: the users contact request 1 (of user 2), at most MaxContacts
\* calls getting past the lookup.
MaxContacts == 2

InitContacts ==
    /\ users = InitialUsers
    /\ donors = <<>>
    /\ requests = << Request1 >>
    /\ chats = <<>>
    /\ requestMessages = <<>>
    /\ contactMessages = <<>>
    /\ notifications = <<>>
    /\ NoLedger
    /\ now = T0
    /\ req = NoRequest
    /\ res = NoResponse

NextContacts ==
    \/ \E header \in ChatCallers, id \in 1..2, message \in ChatMessages :
         Len(procs) < MaxContacts /\ ContactLookup(header, id, message)
    \/ \E p \in 1..Len(procs) : ContactFinish(p)

SpecContacts == InitContacts /\ [][NextContacts]_vars

-----------------------------------------------------------------------------
(* POST /requests as the awaits it is: BloodRequest.countDocuments, then    *)
(* bloodRequest.save() and the matches of the response.                     *)

\* The handler up to countDocuments({ user, isDeleted: false }).
CountRequests(header, body) ==
    LET a == auth(header)
        op == "POST /requests"
        mine(r) == r.user = a.user.id /\ r.isDeleted = FALSE
    IN IF a.status # 200
       THEN res' = [op |-> op, status |-> a.status, header |-> header]
            /\ UNCHANGED <<store, now, req>>
       ELSE IF ~body.complete
       THEN res' = [op |-> op, status |-> 400, header |-> header]
            /\ UNCHANGED <<store, now, req>>
       ELSE /\ procs' = Append(procs, [pc |-> "save", header |-> header, user |-> a.user,
                                       body |-> body,
                                       count |-> Len(SelectSeq(requests, mine))])
            /\ UNCHANGED <<users, donors, requests, chats, requestMessages, contactMessages,
                           notifications, donations, institutions, auditLogs, now, req, res>>

\* new BloodRequest({ requestNumber: count + 1, ... }).save() and the response.
SaveNewRequest(p) ==
    LET run == procs[p]
        bloodRequest == [_id |-> NextId(requests), user |-> run.user.id,
                         requestNumber |-> run.count + 1, bloodGroup |-> run.body.bloodGroup,
                         city |-> run.body.city, status |-> "open", isDeleted |-> FALSE]
    IN /\ run.pc = "save"
       /\ procs' = [procs EXCEPT ![p] = [run EXCEPT !.pc = "done"]]
       /\ requests' = Append(requests, bloodRequest)
       /\ \E clk \in MatchClockReads(bloodRequest, run.user.role, now) :
            res' = [op |-> "POST /requests", status |-> 201, header |-> run.header,
                    user |-> run.user, request |-> bloodRequest,
                    clk |-> ReadsMade(bloodRequest, run.user.role, clk),
                    data |-> findMatchingDonors(bloodRequest, run.user.role,
                                                Some(run.user.id), clk)]
       /\ UNCHANGED <<users, donors, chats, requestMessages, contactMessages, notifications,
                      donations, institutions, auditLogs, now, req>>

\* SpecNumbers: the users create blood requests, at most MaxCreations calls
\* getting past the validation.
MaxCreations == 3

InitNumbers ==
    /\ users = InitialUsers
    /\ donors = <<>>
    /\ requests = <<>>
    /\ chats = <<>>
    /\ requestMessages = <<>>
    /\ contactMessages = <<>>
    /\ notifications = <<>>
    /\ NoLedger
    /\ now = T0
    /\ req = NoRequest
    /\ res = NoResponse

NextNumbers ==
    \/ \E header \in Headers, body \in RequestBodies :
         Len(procs) < MaxCreations /\ CountRequests(header, body)
    \/ \E p \in 1..Len(procs) : SaveNewRequest(p)

SpecNumbers == InitNumbers /\ [][NextNumbers]_vars

-----------------------------------------------------------------------------
(* Tokens issued before a change of their user: admin 1 demotes or          *)
(* deactivates users 2 (an admin) and 3, who go on calling GET              *)
(* /donors/search and GET /donors/:id/eligibility with the tokens of their  *)
(* logins.                                                                  *)

MaxTokenCalls == 2

\* The tokens users 2 and 3 were given at login.
IssuedTokens == {Some([id |-> 2, role |-> "admin", valid |-> TRUE]),
                 Some([id |-> 3, role |-> "user", valid |-> TRUE])}

InitTokens ==
    /\ users = << [_id |-> 1, role |-> "admin", isActive |-> TRUE],
                  [_id |-> 2, role |-> "admin", isActive |-> TRUE],
                  [_id |-> 3, role |-> "user", isActive |-> TRUE] >>
    /\ donors = << Donor(1, 1, TRUE, "admin", "admin", TRUE, "O-", Some(<<"D", "a">>),
                         Null, Null, FALSE),
                   Donor(2, 2, TRUE, "registered", "registered", TRUE, "O-",
                         Some(<<"D", "a">>), Null, Null, FALSE),
                   Donor(3, 3, TRUE, "public", "public", TRUE, "O-", Some(<<"D", "a">>),
                         Null, Null, FALSE) >>
    /\ requests = <<>>
    /\ chats = <<>>
    /\ requestMessages = <<>>
    /\ contactMessages = <<>>
    /\ notifications = <<>>
    /\ NoLedger
    /\ now = T0
    /\ req = NoRequest
    /\ res = NoResponse

NextTokens ==
    \/ \E id \in 2..3, role \in {"admin", "user"} :
         /\ Len(procs) < MaxTokenCalls
         /\ UpdateUserRole(Some([id |-> 1, role |-> "admin", valid |-> TRUE]),
                           PathId(id, TRUE), role)
    \/ \E id \in 2..3, isActive \in BOOLEAN :
         /\ Len(procs) < MaxTokenCalls
         /\ UpdateUserStatus(Some([id |-> 1, role |-> "admin", valid |-> TRUE]),
                             PathId(id, TRUE), Some(isActive))
    \/ \E p \in 1..Len(procs) : FindTargetUser(p)
    \/ \E p \in 1..Len(procs) : CountOtherAdmins(p)
    \/ \E p \in 1..Len(procs) : SaveTargetUser(p)
    \/ \E header \in IssuedTokens : Search(header, Null, Null)
    \/ \E header \in IssuedTokens, id \in 1..3 : GetEligibility(header, id)

SpecTokens == InitTokens /\ [][NextTokens]_vars

-----------------------------------------------------------------------------
(* POST /donors and PUT /donors/:id. Each handler awaits the database       *)
(* twice: the calls in progress between the two awaits are runs in procs.   *)

\* An update document or request body: a function from its keys to their
\* values; the empty body is <<>>.
Keys(doc) == DOMAIN doc

\* Mongoose's cast of an update document: the keys that are not operators
\* are moved under $set, next to the keys the document gives under "$set".
castUpdate(updates) ==
    LET plain == Keys(updates) \ {"$set"}
        given == IF "$set" \in Keys(updates) THEN updates["$set"] ELSE <<>>
    IN [ k \in plain \cup Keys(given) |-> IF k \in plain THEN updates[k] ELSE given[k] ]

\* The unique index on donorSchema.user: writing doc into coll would give two
\* documents the same user.
DuplicateUser(coll, doc) == \E d \in Range(coll) : d._id # doc._id /\ d.user = doc.user

\* Donor.findOne({ user }) of POST /donors; the call goes on to donor.save()
\* when it finds no profile. body.complete: the required fields are given;
\* body.user: the user id an admin may give (Null when absent).
CreateDonor(header, body) ==
    LET a == auth(header)
        op == "POST /donors"
        out(status, user) == Response(op, status, header, user, body, <<>>, Null)
        reject(status) == res' = out(status, Some(a.user.id)) /\ UNCHANGED <<store, now, req>>
        onBehalf == a.user.role = "admin" /\ body.user # Null
        ownerUserId == IF onBehalf THEN Val(body.user) ELSE a.user.id
        ofOwner(d) == d.user = ownerUserId
    IN IF a.status # 200
       THEN res' = out(a.status, Null) /\ UNCHANGED <<store, now, req>>
       ELSE IF ~body.complete THEN reject(400)
       ELSE IF onBehalf /\ ~isValidObjectId(Val(body.user)) THEN reject(400)
       ELSE IF SelectSeq(donors, ofOwner) # <<>> THEN reject(400)
       ELSE /\ procs' = Append(procs, [pc |-> "saveNewDonor", header |-> header,
                                       user |-> a.user, body |-> body,
                                       ownerUserId |-> ownerUserId])
            /\ UNCHANGED <<users, donors, requests, chats, requestMessages, contactMessages,
                           notifications, donations, institutions, auditLogs, now, req, res>>

\* donor.save() of POST /donors and the response; a duplicate key error of
\* the unique index is answered 400.
SaveNewDonor(p) ==
    LET run == procs[p]
        op == "POST /donors"
        donor == [Donor(NextId(donors), run.ownerUserId, TRUE, "registered", "registered",
                        TRUE, "O-", Null, Null, Null, FALSE)
                    EXCEPT !.createdAt = now, !.updatedAt = now]
        out(status, data) == [data |-> data] @@ Response(op, status, run.header,
                                                         Some(run.user.id), run.body, <<>>, Null)
    IN /\ run.pc = "saveNewDonor"
       /\ procs' = [procs EXCEPT ![p] = [run EXCEPT !.pc = "done"]]
       /\ IF DuplicateUser(donors, donor)
          THEN /\ res' = out(400, <<>>)
               /\ UNCHANGED donors
          ELSE /\ donors' = Append(donors, donor)
               /\ \E clk \in ClockReads(now, 3) :
                    res' = out(201, toSafeObject(donor, run.user.role, Some(run.user.id), clk))
       /\ UNCHANGED <<users, requests, chats, requestMessages, contactMessages,
                      notifications, donations, institutions, auditLogs, now, req>>

\* PUT /donors/:id up to the ownership check; body is the JSON body.
UpdateDonor(header, id, body) ==
    LET a == auth(header)
        op == "PUT /donors/:id"
        target == [id |-> id, body |-> body]
        out(status, user) == Response(op, status, header, user, target, <<>>, Null)
        reject(status) == res' = out(status, Some(a.user.id)) /\ UNCHANGED <<store, now, req>>
        owned(d) == d._id = id /\ d.user = a.user.id
    IN IF a.status # 200
       THEN res' = out(a.status, Null) /\ UNCHANGED <<store, now, req>>
       ELSE IF ~isValidObjectId(id) THEN reject(400)
       ELSE IF a.user.role # "admin" /\ SelectSeq(donors, owned) = <<>> THEN reject(403)
       ELSE /\ procs' = Append(procs, [pc |-> "findByIdAndUpdate", header |-> header,
                                       user |-> a.user, id |-> id, body |-> body])
            /\ UNCHANGED <<users, donors, requests, chats, requestMessages, contactMessages,
                           notifications, donations, institutions, auditLogs, now, req, res>>

\* Donor.findByIdAndUpdate(id, updates) of PUT /donors/:id and the response:
\* updates is the body without its "user" key, with updatedAt.
FindByIdAndUpdate(p) ==
    LET run == procs[p]
        op == "PUT /donors/:id"
        target == [id |-> run.id, body |-> run.body]
        kept == (Keys(run.body) \ {"user"}) \cup {"updatedAt"}
        updates == [ k \in kept |-> IF k = "updatedAt" THEN now ELSE run.body[k] ]
        set == castUpdate(updates)
        found == FindById(donors, run.id)
        updatedDonor == [ f \in Keys(Val(found)) |->
                            IF f \in Keys(set) THEN set[f] ELSE Val(found)[f] ]
        out(status, data) == [data |-> data] @@ Response(op, status, run.header,
                                                         Some(run.user.id), target, <<>>, Null)
    IN /\ run.pc = "findByIdAndUpdate"
       /\ procs' = [procs EXCEPT ![p] = [run EXCEPT !.pc = "done"]]
       /\ IF found = Null
          THEN res' = out(404, <<>>) /\ UNCHANGED donors
          ELSE IF DuplicateUser(donors, updatedDonor)
          THEN res' = out(500, <<>>) /\ UNCHANGED donors
          ELSE /\ donors' = SaveRequest(donors, updatedDonor)
               /\ \E clk \in ClockReads(now, 3) :
                    res' = out(200, toSafeObject(updatedDonor, run.user.role,
                                                 Some(run.user.id), clk))
       /\ UNCHANGED <<users, requests, chats, requestMessages, contactMessages,
                      notifications, donations, institutions, auditLogs, now, req>>

\* SpecProfiles: users 2 and 3 and the admin create and update donor profiles;
\* user 2 starts with a profile. At most MaxCalls calls pass their first
\* await, in any interleaving.
MaxCalls == 2

CreateBodies == [complete : BOOLEAN, user : {Null, Some(0), Some(3)}]

\* The JSON bodies of PUT /donors/:id.
UpdateBodies ==
    << <<>>,
       [willingToDonate |-> FALSE],
       [totalDonations |-> 5],
       [lastDonationDate |-> Some(T0)],
       [user |-> 3],
       ("$set" :> [user |-> 3]) >>

ProfileCallers == {Null} \cup {Some(t) : t \in Tokens}

InitProfiles ==
    /\ users = InitialUsers
    /\ donors = << Donor(1, 2, TRUE, "registered", "registered", TRUE, "O-", Null,
                         Some(T0 - 100 * DayMs), Null, FALSE) >>
    /\ requests = <<>>
    /\ chats = <<>>
    /\ requestMessages = <<>>
    /\ contactMessages = <<>>
    /\ notifications = <<>>
    /\ NoLedger
    /\ now = T0
    /\ req = NoRequest
    /\ res = NoResponse

NextProfiles ==
    \/ \E header \in ProfileCallers, body \in CreateBodies :
         Len(procs) < MaxCalls /\ CreateDonor(header, body)
    \/ \E header \in ProfileCallers, id \in 0..2, b \in 1..Len(UpdateBodies) :
         Len(procs) < MaxCalls /\ UpdateDonor(header, id, UpdateBodies[b])
    \/ \E p \in 1..Len(procs) : SaveNewDonor(p)
    \/ \E p \in 1..Len(procs) : FindByIdAndUpdate(p)

SpecProfiles == InitProfiles /\ [][NextProfiles]_vars

-----------------------------------------------------------------------------


-----------------------------------------------------------------------------
(* Claims about isEligibleToDonate, read off the last eligibility response. *)

EligCall == res.op = "GET /donors/:id/eligibility" /\ res.status = 200

\* The deferral test of the call (its first clock read) found a deferral
\* that ends after that read.
DeferralSeen == res.donor.deferralUntil # Null /\ Val(res.donor.deferralUntil) > res.clk[1]

\* n whole days have elapsed between date and t: n days <= t - date < n+1 days.
ElapsedDays(date, t, n) == n * DayMs <= t - date /\ t - date < (n + 1) * DayMs

\* The verdict the lastDonationDate rules give at clock value t.
CooldownVerdict(d, t, e) ==
    IF d.lastDonationDate = Null
    THEN e = [eligible |-> TRUE, daysUntilEligible |-> Some(0)]
    ELSE \E n \in -2..92 :
            /\ ElapsedDays(Val(d.lastDonationDate), t, n)
            /\ e.eligible = (n >= 90)
            /\ e.daysUntilEligible = IF n >= 90 THEN Some(0) ELSE Some(90 - n)

\* C1: for a willing donor without a deferral in the future, eligible holds
\* exactly when lastDonationDate is null or at least 90 whole days have
\* elapsed; daysUntilEligible is 0 when eligible and 90 - elapsedDays
\* otherwise.
C1_CooldownRule ==
    (EligCall /\ res.donor.willingToDonate /\ ~DeferralSeen)
        => CooldownVerdict(res.donor, res.clk[3], res.eligibility)

\* C1 witness: 89 whole days (and not yet 90) elapsed, verdict not eligible
\* with one day left.
C1_Witness ==
    /\ EligCall /\ res.donor.willingToDonate /\ ~DeferralSeen
    /\ res.donor.lastDonationDate # Null
    /\ res.clk[3] - Val(res.donor.lastDonationDate) = 90 * DayMs - 1
    /\ res.eligibility = [eligible |-> FALSE, daysUntilEligible |-> Some(1)]

\* C2: an unwilling donor gets eligible = false and daysUntilEligible = null,
\* whatever lastDonationDate and deferralUntil are.
C2_UnwillingNeverEligible ==
    (EligCall /\ res.donor.willingToDonate = FALSE)
        => res.eligibility = [eligible |-> FALSE, daysUntilEligible |-> Null]

\* C2 witness: an unwilling donor with an active deferral and a donation
\* more than 90 days old was evaluated.
C2_Witness ==
    /\ EligCall /\ res.donor.willingToDonate = FALSE
    /\ DeferralSeen
    /\ res.donor.lastDonationDate # Null
    /\ res.clk[3] - Val(res.donor.lastDonationDate) > 90 * DayMs
    /\ res.eligibility.daysUntilEligible = Null

\* C3 as claimed, for a clock value t taken as the call's `now`: a deferral
\* later than t gives eligible = false and ceil((deferralUntil - t) / 1 day)
\* >= 1 days; any other deferral leaves the lastDonationDate rules alone.
DeferralRuleAt(d, t, e) ==
    IF d.deferralUntil # Null /\ Val(d.deferralUntil) > t
    THEN /\ e.eligible = FALSE
         /\ \E n \in 1..3 :
              /\ (n - 1) * DayMs < Val(d.deferralUntil) - t
              /\ Val(d.deferralUntil) - t <= n * DayMs
              /\ e.daysUntilEligible = Some(n)
    ELSE CooldownVerdict(d, t, e)

\* C3: for a willing donor a deferral in the future blocks eligibility with
\* daysUntilEligible = ceil((deferralUntil - now) / 1 day) >= 1, and a
\* deferral not in the future has no effect; now is any instant of the call.
C3_DeferralRule ==
    (EligCall /\ res.donor.willingToDonate)
        => \E t \in res.clk[1]..res.clk[3] : DeferralRuleAt(res.donor, t, res.eligibility)

\* C3 holds of every call during which the clock does not move.
C3_DeferralRuleSteadyClock ==
    (EligCall /\ res.donor.willingToDonate /\ res.clk[1] = res.clk[3])
        => DeferralRuleAt(res.donor, res.clk[1], res.eligibility)

-----------------------------------------------------------------------------
(* Claims about the donor views and the donor queries, read off the last    *)
(* response of GET /donors/search or GET /requests/:id/matches.             *)

SearchCall == res.op = "GET /donors/search" /\ res.status = 200
MatchCall == res.op = "GET /requests/:id/matches" /\ res.status = 200

\* The viewer of the response, by the token the request carried.
ViewerLoggedIn == res.header # Null /\ Val(res.header).valid
ViewerIsAdmin == ViewerLoggedIn /\ Val(res.header).role = "admin"
ViewerIsGuest == ~ViewerLoggedIn
ViewerOwns(d) == ViewerLoggedIn /\ Val(res.header).id = d.user

\* The views the response carries.
Views ==
    IF SearchCall THEN Range(res.data)
    ELSE IF MatchCall THEN Range(res.data.safeDonors)
    ELSE {}

\* The stored donor a view or returned document stands for.
StoredDonor(v) == CHOOSE d \in Range(donors) : d._id = v._id

C5_GuestView ==
    ViewerIsGuest =>
        \A v \in Views :
            /\ ("phone" \in DOMAIN v) = (StoredDonor(v).phoneVisibility = "public")
            /\ "email" \notin DOMAIN v
            /\ DOMAIN v \cap PrivateFields = {}

\* C5 witness: a guest search returned a donor whose phoneVisibility is
\* "registered", without the phone.
C5_Witness ==
    /\ SearchCall /\ ViewerIsGuest
    /\ \E v \in Views : v.phoneVisibility = "registered" /\ "phone" \notin DOMAIN v

\* The donors a response returns, as views or as documents.
Returned ==
    Views \cup (IF MatchCall THEN Range(res.data.eligibleDonors) ELSE {})

\* C7: a donor of visibility "admin" is returned only to an admin, one of
\* visibility "registered" only to an admin or logged-in viewer, and a guest
\* only receives donors of visibility "public".
C7_VisibilityTiers ==
    \A v \in Returned :
        /\ StoredDonor(v).visibility = "admin" => ViewerIsAdmin
        /\ StoredDonor(v).visibility = "registered" => ViewerLoggedIn
        /\ ViewerIsGuest => StoredDonor(v).visibility = "public"

\* C7 witness: a guest search whose other filters donor 1 passes returned
\* donor 2 only, donor 1 being of visibility "registered".
C7_Witness ==
    /\ SearchCall /\ ViewerIsGuest
    /\ res.query = [bloodGroup |-> Null, city |-> Null]
    /\ donors[1].visibility = "registered" /\ donors[1].willingToDonate
    /\ {v._id : v \in Views} = {2}

\* str contains sub, compared case-insensitively.
ContainsCI(str, sub) ==
    \E i \in 1..(Len(str) - Len(sub) + 1) :
        \A j \in 1..Len(sub) : Lower(str[i + j - 1]) = Lower(sub[j])

\* Donor d is eligible at some instant of the call / not eligible at some
\* instant of the call.
EligibleDuring(d, clk) ==
    \E t \in (IF clk = <<>> THEN {now} ELSE clk[1]..clk[Len(clk)]) :
        isEligibleToDonate(d, <<t, t, t>>).eligible
IneligibleDuring(d, clk) ==
    \E t \in (IF clk = <<>> THEN {now} ELSE clk[1]..clk[Len(clk)]) :
        ~isEligibleToDonate(d, <<t, t, t>>).eligible

\* The filters of the claim other than eligibility.
MatchesRequest(d, r) ==
    /\ d.willingToDonate = TRUE
    /\ d.isDeleted = FALSE
    /\ d.bloodGroup = r.bloodGroup
    /\ d.address.city # Null /\ ContainsCI(Val(d.address.city), r.city)
    /\ d.visibility \in (IF ViewerIsAdmin THEN {"public", "registered", "admin"}
                         ELSE {"public", "registered"})

\* C6, the set: the donors returned are exactly the willing, non-deleted
\* donors of the request's blood group whose city contains the request city
\* case-insensitively, visible to the viewer and currently eligible.
C6_ExactSet ==
    MatchCall =>
        \A d \in Range(donors) :
            LET returned == \E v \in Range(res.data.safeDonors) : v._id = d._id IN
            /\ returned => MatchesRequest(d, res.request) /\ EligibleDuring(d, res.clk)
            /\ ~returned => ~MatchesRequest(d, res.request) \/ IneligibleDuring(d, res.clk)

\* C6, the projection: every donor the call returns is the toSafeObject view
\* for the viewer, so carries no field outside that view.
C6_Projection ==
    MatchCall =>
        \A v \in Range(res.data.safeDonors) \cup Range(res.data.eligibleDonors) :
            DOMAIN v = IncludedFields(StoredDonor(v), res.user.role, Some(res.user.id))

\* C6: findMatchingDonors returns exactly the matching donors, each as the
\* toSafeObject projection for the viewer.
C6_MatchingDonors == C6_ExactSet /\ C6_Projection

\* C6, what the code does guarantee: a returned donor has the request's
\* blood group, is willing, visible to the viewer, not deleted and eligible,
\* and its city matches the request city read as a regular expression.
C6_ReturnedMatchByRegex ==
    MatchCall =>
        \A v \in Range(res.data.safeDonors) :
            LET d == StoredDonor(v) IN
            /\ d.willingToDonate /\ ~d.isDeleted /\ d.bloodGroup = res.request.bloodGroup
            /\ RegexI(res.request.city, d.address.city)
            /\ EligibleDuring(d, res.clk)

-----------------------------------------------------------------------------
(* C8: pausing a request chat blocks sends, resuming re-opens it. *)

\* No collection of messages or notifications changes in the step.
NothingCreated ==
    /\ requestMessages' = requestMessages
    /\ contactMessages' = contactMessages
    /\ notifications' = notifications

\* The step serves a send of a non-empty message by user u, a participant of
\* the stored chat chats[c]: through POST /chats/:id/messages with the id of
\* the chat, or through POST /requests/:id/contact on the request of the chat
\* when the chat is the one of u and the owner of the request.
SendBy(c, u) ==
    /\ res'.op \in {"POST /chats/:id/messages", "POST /requests/:id/contact"}
    /\ res'.user = Some(u)
    /\ res'.text # <<>>
    /\ u \in Range(chats[c].participants)
    /\ IF res'.op = "POST /chats/:id/messages"
       THEN res'.target = ChatId(chats[c]._id)
       ELSE /\ chats[c].request = res'.target
            /\ \E r \in Range(requests) :
                 r._id = res'.target /\ Range(chats[c].participants) = {u, r.user}

\* The send of the step succeeded: it stored one more message, from u with the
\* text sent, and chat.lastMessage of chats[c] is that message.
SentIn(c, u) ==
    /\ res'.status = 201
    /\ Len(requestMessages') = Len(requestMessages) + 1
    /\ LET msg == requestMessages'[Len(requestMessages')] IN
         /\ msg.fromUser = u
         /\ msg.message = res'.text
         /\ chats'[c].lastMessage = Some([text |-> msg.message, fromUser |-> u,
                                          createdAt |-> msg.createdAt])

\* The last call was the unpause of chats[c] that left nobody pausing it.
JustResumed(c) ==
    /\ res.op = "POST /chats/:id/unpause"
    /\ res.status = 200
    /\ res.target = ChatId(chats[c]._id)
    /\ chats[c].pausedBy = <<>>

\* C8: for every request chat, while pausedBy is non-empty every send by a
\* participant is rejected as forbidden (403) and creates no message; and the
\* send by a participant that follows the unpause that emptied pausedBy
\* succeeds and sets chat.lastMessage to the message sent.
C8_PauseGate ==
    [][ \A c \in 1..Len(chats), u \in UserIds :
          /\ (chats[c].pausedBy # <<>> /\ SendBy(c, u))
                => (res'.status = 403 /\ NothingCreated)
          /\ (JustResumed(c) /\ SendBy(c, u)) => SentIn(c, u) ]_vars

\* C8 on the chats of two different users: the statement of C8, and a send
\* succeeds whenever nobody pauses the chat.
C8_PauseGateOfTwoUsers ==
    [][ \A c \in 1..Len(chats), u \in UserIds :
          Cardinality(Range(chats[c].participants)) = 2 =>
            /\ (chats[c].pausedBy # <<>> /\ SendBy(c, u))
                  => (res'.status = 403 /\ NothingCreated)
            /\ (chats[c].pausedBy = <<>> /\ SendBy(c, u)) => SentIn(c, u) ]_vars

\* C8: a participant was answered 403 on a paused chat, and a participant's
\* send went through right after the chat was resumed.
C8_SeenBlocked ==
    /\ res.op = "POST /chats/:id/messages" /\ res.status = 403
    /\ res.chat # Null /\ chats[Val(res.chat)].pausedBy # <<>>
C8_SeenResumed ==
    /\ res.op = "POST /chats/:id/messages" /\ res.status = 201
    /\ Len(requestMessages) = 2
    /\ \E c \in 1..Len(chats) : Len(chats[c].participants) = 2 /\ chats[c].pausedBy = <<>>

-----------------------------------------------------------------------------
(* C9: sends to missing, soft-deleted or own targets are rejected. *)

\* No document of collection coll has the id, or the one that has it is
\* soft-deleted, or it belongs to user u (Null: nobody is logged in).
Missing(coll, id) == \A doc \in Range(coll) : doc._id # id
SoftDeleted(coll, id) == \E doc \in Range(coll) : doc._id = id /\ doc.isDeleted
OwnedBy(coll, id, u) == u # Null /\ \E doc \in Range(coll) : doc._id = id /\ doc.user = Val(u)
BadTarget(coll, id, u) == Missing(coll, id) \/ SoftDeleted(coll, id) \/ OwnedBy(coll, id, u)

\* The send the step serves names a donor, request or chat that does not
\* exist, is soft-deleted or belongs to the sender.
SendToBadTarget ==
    \/ /\ res'.op = "POST /contact"
       /\ \/ BadTarget(donors, res'.target.donorId, res'.user)
          \/ /\ res'.target.requestId # Null
             /\ \/ Missing(requests, Val(res'.target.requestId))
                \/ SoftDeleted(requests, Val(res'.target.requestId))
    \/ /\ res'.op = "POST /chats/:id/messages"
       /\ IF res'.target.contact
          THEN BadTarget(donors, res'.target.donorId, res'.user)
          ELSE Missing(chats, res'.target.id)
    \/ /\ res'.op = "POST /requests/:id/contact"
       /\ BadTarget(requests, res'.target, res'.user)

\* C9: every message-send operation (POST /contact, POST /chats/:id/messages
\* with the contact_ pseudo-chat path, POST /requests/:id/contact) is rejected
\* and creates no message and no notification when its target donor, request
\* or chat does not exist, is soft-deleted or belongs to the sender.
C9_BadTargetsRejected ==
    [][ SendToBadTarget => (res'.status \notin {200, 201} /\ NothingCreated) ]_vars

\* C9 for POST /contact alone, the route that makes all three checks.
C9_PostContactRejects ==
    [][ (res'.op = "POST /contact" /\ SendToBadTarget)
           => (res'.status \notin {200, 201} /\ NothingCreated) ]_vars

-----------------------------------------------------------------------------
(* C10: donors that do not accept contact receive no contact message. *)

\* The step serves a contact-message send to donor d by a logged-in user with
\* a non-empty message: POST /contact with the donor's id, or
\* POST /chats/:id/messages with a contact_<userId>_<donorId> id of the donor.
ContactSendTo(d) ==
    /\ res'.op \in {"POST /contact", "POST /chats/:id/messages"}
    /\ res'.user # Null
    /\ res'.text # <<>>
    /\ IF res'.op = "POST /contact"
       THEN res'.target.donorId = d._id
       ELSE /\ res'.target.contact
            /\ isValidObjectId(res'.target.fromUserId)
            /\ res'.target.donorId = d._id

NoContactCreated == contactMessages' = contactMessages /\ notifications' = notifications

C10_SeenOnChatPath ==
    /\ res.op = "POST /chats/:id/messages" /\ res.status = 403
    /\ res.user = Some(res.target.fromUserId) /\ res.text # <<>>
    /\ \E d \in Range(donors) : d._id = res.target.donorId /\ d.allowRequestContact = FALSE
    /\ contactMessages = <<>> /\ notifications = <<>>

-----------------------------------------------------------------------------
(* C11: the effects of a successful chat send. *)

\* The step is a successful send (201) by user s on chat c, whose other
\* participant is user r.
SentBy(c, s, r) ==
    /\ now' = now   \* a call was served, the step is not a tick of the clock
    /\ res'.op \in {"POST /chats/:id/messages", "POST /requests/:id/contact"}
    /\ res'.status = 201
    /\ res'.chat = Some(c)
    /\ res'.user = Some(s)
    /\ s # r
    /\ Range(chats'[c].participants) = {s, r}

\* The step stored exactly one RequestMessage, from s to r; lastMessage of
\* chat c holds its text, sender and creation time; updatedAt of the chat is
\* the time of the step; exactly one Notification was stored, directed at r.
SendEffects(c, s, r) ==
    /\ Len(requestMessages') = Len(requestMessages) + 1
    /\ SubSeq(requestMessages', 1, Len(requestMessages)) = requestMessages
    /\ contactMessages' = contactMessages
    /\ LET msg == requestMessages'[Len(requestMessages')] IN
         /\ msg.fromUser = s /\ msg.toUser = r /\ msg.message = res'.text
         /\ chats'[c].lastMessage = Some([text |-> msg.message, fromUser |-> s,
                                          createdAt |-> msg.createdAt])
    /\ chats'[c].updatedAt = now
    /\ Len(notifications') = Len(notifications) + 1
    /\ SubSeq(notifications', 1, Len(notifications)) = notifications
    /\ notifications'[Len(notifications')].user = r

\* The sender of the step's POST /requests/:id/contact owns the request.
OwnerContact ==
    /\ res'.op = "POST /requests/:id/contact"
    /\ OwnedBy(requests, res'.target, res'.user)

\* C11: each successful chat send by participant S in a request chat whose
\* other participant is R creates exactly one RequestMessage from S to R, sets
\* chat.lastMessage to that message's text, sender and creation time,
\* refreshes chat.updatedAt, and creates exactly one Notification directed at
\* R and none directed at S.
C11_SendEffects ==
    [][ \A c \in 1..Len(chats'), s \in UserIds, r \in UserIds :
          SentBy(c, s, r) => SendEffects(c, s, r) ]_vars

\* C11 for the sends that are not the request owner's POST /requests/:id/contact
\* on the own request.
C11_SendEffectsNotOwnerContact ==
    [][ \A c \in 1..Len(chats'), s \in UserIds, r \in UserIds :
          (SentBy(c, s, r) /\ ~OwnerContact) => SendEffects(c, s, r) ]_vars

\* C11: a send in a chat of two users succeeded after the clock advanced past
\* the creation of the chat.
C11_SeenSend ==
    /\ res.op = "POST /chats/:id/messages" /\ res.status = 201 /\ res.chat # Null
    /\ chats[Val(res.chat)].updatedAt > chats[Val(res.chat)].createdAt
    /\ Len(requestMessages) = 2 /\ Len(notifications) = 2

-----------------------------------------------------------------------------
(* C12: the status transitions of a blood request. *)

LegalTransition(from, to) == from = "open" /\ to \in {"fulfilled", "cancelled"}

\* The step serves a status update of request r to status value `to`, asked
\* by an admin or by the owner of the request.
StatusUpdateOf(r, to) ==
    /\ res'.op = "PUT /requests/:id/status"
    /\ res'.target = [id |-> r._id, status |-> to]
    /\ res'.user # Null
    /\ \/ Val(res'.header).role = "admin"
       \/ res'.user = Some(r.user)

\* C12: for every non-deleted BloodRequest, a status update is applied only
\* when the current status is open and the new status is fulfilled or
\* cancelled; any other requested change is rejected with a validation error
\* (400) and leaves the status unchanged, so once a request is fulfilled or
\* cancelled its status never changes again.
C12_StatusTransitions ==
    [][ \A i \in 1..Len(requests) :
          ~requests[i].isDeleted =>
            /\ requests'[i].status # requests[i].status
                  => LegalTransition(requests[i].status, requests'[i].status)
            /\ \A to \in StatusInputs :
                 (/\ StatusUpdateOf(requests[i], to)
                  /\ to # requests[i].status
                  /\ ~LegalTransition(requests[i].status, to))
                    => (res'.status = 400 /\ requests'[i].status = requests[i].status)
            /\ requests[i].status \in {"fulfilled", "cancelled"}
                  => requests'[i].status = requests[i].status ]_vars

\* C12 for the values outside the enum alone: they are rejected with 400.
C12_EnumChecked ==
    [][ \A i \in 1..Len(requests) :
          StatusUpdateOf(requests[i], "pending")
             => (res'.status = 400 /\ requests' = requests /\ auditLogs' = auditLogs) ]_vars

-----------------------------------------------------------------------------
(* C13: the donation counters of a donor. *)

\* The donations recorded for donor d in collection dons.
DonationsOf(dons, d) == {x \in Range(dons) : x.donor = d._id}

\* The latest donationDate among the donations in xs, Null when there is none.
LatestDate(xs) ==
    IF xs = {} THEN Null
    ELSE Some(CHOOSE t \in {x.donationDate : x \in xs} :
                \A x \in xs : x.donationDate <= t)

\* No recording is in progress.
AllDone(runs) == \A p \in 1..Len(runs) : runs[p].pc = "done"

\* Donor d, whose totalDonations was 0 at the start, counts every donation of
\* dons recorded for it, and its lastDonationDate is the latest of them.
TotalsMatch(dons, d) ==
    /\ d.totalDonations = Cardinality(DonationsOf(dons, d))
    /\ d.lastDonationDate = LatestDate(DonationsOf(dons, d))

\* C13: after any sequence and any interleaving of donation recordings, each
\* donor's totalDonations never decreases and equals its initial value plus
\* the number of Donation records created for that donor, and
\* lastDonationDate equals the latest donationDate among the donor's
\* donations (null when there are none).
C13_DonationTotals ==
    [][ /\ \A i \in 1..Len(donors) :
             donors'[i].totalDonations >= donors[i].totalDonations
        /\ AllDone(procs') => \A i \in 1..Len(donors') : TotalsMatch(donations', donors'[i])
      ]_vars

\* C13 for the recordings that do not overlap: whenever at most one run has
\* started and it is done, the totals match.
C13_OneRunTotals ==
    (Len(procs) <= 1 /\ AllDone(procs)) => \A d \in Range(donors) : TotalsMatch(donations, d)

\* C13: two runs are done and six donations are recorded.
C13_SeenTwoRuns == Len(procs) = 2 /\ AllDone(procs) /\ Len(donations) = 6


-----------------------------------------------------------------------------
(* C14: PUT /donors/:id and the donation counters of the profile. *)

\* The step is the write of a PUT /donors/:id call.
UpdateWritten == \E p \in 1..Len(procs) :
    /\ procs[p].pc = "findByIdAndUpdate"
    /\ procs'[p].pc = "done"
    /\ res'.status = 200

\* C14: a PUT /donors/:id call, whatever its body, leaves totalDonations and
\* lastDonationDate of every donor profile as they were.
C14_UpdateKeepsTotals ==
    [][UpdateWritten =>
         \A i \in 1..Len(donors) :
            /\ donors'[i].totalDonations = donors[i].totalDonations
            /\ donors'[i].lastDonationDate = donors[i].lastDonationDate]_vars


-----------------------------------------------------------------------------
(* C15: each user owns at most one donor profile. *)

\* No two donor profiles have the same owning user.
UniqueOwners(coll) == \A i, j \in 1..Len(coll) : coll[i].user = coll[j].user => i = j

\* C15: in every reachable state no two donor profiles have the same owning
\* user, and the write of a PUT /donors/:id call leaves the owning user of
\* every profile as it was.
C15_OneProfilePerUser ==
    [][/\ UniqueOwners(donors')
       /\ UpdateWritten => \A i \in 1..Len(donors) : donors'[i].user = donors[i].user]_vars

\* C15 without its clause on updates: under every interleaving of creations
\* and updates no two donor profiles have the same owning user.
C15_UniqueOwners == UniqueOwners(donors)

\* C15: two creations for user 3 were in progress together; the unique index
\* refused the second one.
C15_SeenRacingCreations ==
    /\ Len(procs) = 2
    /\ \A p \in 1..2 : procs[p].pc = "done" /\ "ownerUserId" \in DOMAIN procs[p]
    /\ procs[1].ownerUserId = procs[2].ownerUserId
    /\ res.op = "POST /donors" /\ res.status = 400
    /\ Len(donors) = 2

-----------------------------------------------------------------------------
(* C16: the stored message and the lastMessage snapshot of its chat. *)

\* The step is a send attempt through POST /chats/:id/messages on a request
\* chat or through POST /requests/:id/contact that passed validation: answered
\* 201, or 500 by the catch of the handler.
SendAttempt ==
    /\ res'.op \in {"POST /chats/:id/messages", "POST /requests/:id/contact"}
    /\ res'.status \in {201, 500}
    /\ res'.chat # Null
    /\ <<res, store>>' # <<res, store>>

\* The step stored a RequestMessage.
MessagePersisted == Len(requestMessages') = Len(requestMessages) + 1

\* After the step the lastMessage of the chat of the send is the snapshot of
\* the last stored message.
SnapshotUpdated ==
    /\ requestMessages' # <<>>
    /\ LET msg == requestMessages'[Len(requestMessages')]
           chat == Val(FindById(chats', Val(res'.chat)))
       IN chat.lastMessage = Some([text |-> msg.message, fromUser |-> msg.fromUser,
                                   createdAt |-> msg.createdAt])

\* C16: for every send attempt and every outcome of it, the message is stored
\* if and only if the lastMessage snapshot of the chat was updated to it, and
\* a send that ends in an error stores no RequestMessage.
C16_MessageWithSnapshot ==
    [][SendAttempt =>
         /\ MessagePersisted <=> (SnapshotUpdated /\ chats' # chats)
         /\ res'.status = 500 => ~MessagePersisted]_vars

\* C16 for the sends no write of which fails: the message is stored and the
\* snapshot is the stored message.
C16_SuccessfulSendsSnapshot ==
    [][SendAttempt /\ res'.status = 201 => MessagePersisted /\ SnapshotUpdated]_vars

-----------------------------------------------------------------------------
(* C17: a notification that cannot be created and the answer of the send. *)

\* The step is a send (contact message, chat message, request message) all
\* of whose writes were made but the creation of the Notification: the message
\* is stored, the snapshot of a request chat is updated, no notification is
\* added.
NotificationFailed ==
    /\ res'.op \in {"POST /contact", "POST /chats/:id/messages", "POST /requests/:id/contact"}
    /\ \/ Len(contactMessages') = Len(contactMessages) + 1
       \/ MessagePersisted /\ SnapshotUpdated
    /\ notifications' = notifications

\* C17: when the creation of the Notification fails during a send, the send
\* is answered with success (201); the failure is not returned to the caller.
C17_NotificationFailureSwallowed ==
    [][NotificationFailed => res'.status = 201]_vars

-----------------------------------------------------------------------------
(* C18: the notifications of a request creation. *)

\* The step created a blood request.
RequestCreated == res'.op = "POST /requests" /\ res'.status = 201
                  /\ Len(requests') = Len(requests) + 1

\* Notifications the step added.
Emitted == SubSeq(notifications', Len(notifications) + 1, Len(notifications'))

\* Number of "request match" notifications the step directed at user u.
MatchNoticesFor(u) ==
    Cardinality({ n \in 1..Len(Emitted) :
        /\ Emitted[n].type \in {"request match", "request_match"}
        /\ Emitted[n].user = u })

\* The donors findMatchingDonors returned to the creation, that accept
\* contact.
NotifiableMatches == { d \in Range(res'.data.eligibleDonors) : d.allowRequestContact }

\* C18: the creation of a blood request emits exactly one "request match"
\* notification to the owning user of each matched donor that accepts
\* contact, and none to the users of the other donors.
C18_MatchNotifications ==
    [][RequestCreated =>
         \A d \in Range(donors) :
            MatchNoticesFor(d.user) = IF d \in NotifiableMatches THEN 1 ELSE 0]_vars

-----------------------------------------------------------------------------
(* C19, C20: the view toSafeObject returns. *)

ViewCall == res.op = "toSafeObject"

\* The viewer of the call is the admin or the owning user of the donor.
AdminOrOwner ==
    \/ res.viewerRole = "admin"
    \/ res.viewerId # Null /\ Val(res.viewerId) = res.donor.user

\* The fields every view has: id, name, blood group, willingness, address,
\* the visibility and contact settings, the donation counters, the timestamps
\* and the eligibility summary.
AlwaysIncluded ==
    {"id", "fullName", "bloodGroup", "willingToDonate", "address", "visibility",
     "phoneVisibility", "allowRequestContact", "contactPreference", "totalDonations",
     "lastDonationDate", "createdAt", "updatedAt", "eligibility"}

\* The fields the admin and the owner see in addition.
FullViewFields ==
    {"phone", "email", "emergencyContactName", "emergencyContactPhone", "notes", "gender",
     "dateOfBirth"}

\* The view has field f with the value stored in the donor.
Shows(f) == f \in DOMAIN res.view /\ res.view[f] = res.donor[f]

\* C19: for the admin, and for the viewer whose id is the owning user of the
\* donor whatever the viewer role, the view has phone, email,
\* emergencyContactName, emergencyContactPhone, notes, gender and dateOfBirth
\* of the donor, in addition to the always-included fields.
C19_FullView ==
    (ViewCall /\ AdminOrOwner) =>
        /\ \A f \in FullViewFields : Shows(f)
        /\ AlwaysIncluded \subseteq DOMAIN res.view

\* C19 witness: a viewer with the guest role and the id of the owning user got
\* the view with the notes and the phone of a donor whose phoneVisibility is
\* "admin".
C19_Witness ==
    /\ ViewCall /\ res.viewerRole = "guest" /\ AdminOrOwner
    /\ res.donor.phoneVisibility = "admin"
    /\ Shows("notes") /\ Shows("phone")

\* C19 witness of the admin: the admin, who is not the owner, got the full
\* view.
C19_SeenAdmin ==
    /\ ViewCall /\ res.viewerRole = "admin" /\ res.viewerId = Some(2) /\ res.donor.user = 3
    /\ Shows("dateOfBirth")

\* The donor fields a viewer may see, by role and ownership.
Allowlist ==
    AlwaysIncluded \cup {"_id"}
    \cup (IF AdminOrOwner THEN FullViewFields
          ELSE IF res.viewerRole = "guest"
          THEN (IF res.donor.phoneVisibility = "public" THEN {"phone"} ELSE {})
          ELSE {"phone", "email"})

\* C20: every view has the always-included fields with the values of the
\* donor, an eligibility summary equal to the verdict of isEligibleToDonate
\* for the same donor, and no donor field outside the allowlist of the viewer
\* (in particular not deferralUntil, isDeleted or the owning user).
C20_AllowlistProjection ==
    ViewCall =>
        /\ AlwaysIncluded \subseteq DOMAIN res.view
        /\ res.view.id = res.donor._id
        /\ \A f \in AlwaysIncluded \ {"id", "eligibility"} : Shows(f)
        /\ res.view.eligibility = isEligibleToDonate(res.donor, res.clk)
        /\ (DOMAIN res.view) \cap (DOMAIN res.donor) \subseteq Allowlist
        /\ (DOMAIN res.view) \cap {"deferralUntil", "isDeleted", "user"} = {}

\* C20 witness: the view of a soft-deleted donor under deferral, taken by the
\* owner, has the summary "not eligible" and no deferralUntil, isDeleted or
\* user.
C20_Witness ==
    /\ ViewCall /\ AdminOrOwner /\ res.viewerRole # "admin"
    /\ res.donor.isDeleted /\ res.donor.deferralUntil # Null
    /\ ~res.view.eligibility.eligible
    /\ "notes" \in DOMAIN res.view /\ "isDeleted" \notin DOMAIN res.view

-----------------------------------------------------------------------------
(* C21: who may update the status of a blood request. *)

\* The step serves the update of request r to the accepted status value `to`
\* for an authenticated actor.
StatusCallOn(r, to) ==
    /\ res'.op = "PUT /requests/:id/status"
    /\ res'.target = [id |-> r._id, status |-> to]
    /\ res'.user # Null

ActorIsOwnerOrAdmin(r) == Val(res'.header).role = "admin" \/ res'.user = Some(r.user)

\* C21: a status update of a non-deleted request with an accepted value
\* succeeds when the actor is the owner of the request or an admin, and is
\* answered 403 with the status and the audit log unchanged when the actor is
\* any other user.
C21_OwnerOrAdminUpdates ==
    [][ \A i \in 1..Len(requests), to \in allowedStatuses :
          (~requests[i].isDeleted /\ StatusCallOn(requests[i], to)) =>
             IF ActorIsOwnerOrAdmin(requests[i])
             THEN res'.status = 200 /\ requests'[i].status = to
             ELSE res'.status = 403 /\ requests' = requests /\ auditLogs' = auditLogs ]_vars

\* C21 without the owner: the admin who does not own the request updates it,
\* any user who is neither its owner nor an admin is answered 403 and changes
\* nothing.
C21_AdminUpdatesOthersForbidden ==
    [][ \A i \in 1..Len(requests), to \in allowedStatuses :
          (/\ ~requests[i].isDeleted
           /\ StatusCallOn(requests[i], to)
           /\ res'.user # Some(requests[i].user)) =>
             IF Val(res'.header).role = "admin"
             THEN res'.status = 200 /\ requests'[i].status = to
             ELSE res'.status = 403 /\ requests' = requests /\ auditLogs' = auditLogs ]_vars

-----------------------------------------------------------------------------
(* C22: an active admin always exists. *)

ActiveAdmins(coll) == { i \in 1..Len(coll) : coll[i].role = "admin" /\ coll[i].isActive # FALSE }

\* The step is the save of a management call of admin a on the own account
\* that takes the admin role or the active state from it.
SelfRemoval ==
    \E p \in 1..Len(procs) :
        /\ procs[p].pc = "save" /\ procs'[p].pc = "done"
        /\ procs[p].id.oid = procs[p].user.id
        /\ \E i \in ActiveAdmins(users) :
              users[i]._id = procs[p].user.id /\ i \notin ActiveAdmins(users')

\* C22: under every interleaving of the management calls at least one user
\* with role admin and isActive not false exists.
C22_ActiveAdminExists == ActiveAdmins(users) # {}

\* C22: no admin takes the admin role or the active state from the own
\* account.
C22_NoSelfRemoval == [][~SelfRemoval]_vars

-----------------------------------------------------------------------------
(* C23: the chat routes serve the participants of the chat only. *)

ChatRoutes ==
    {"GET /chats/:id/messages", "POST /chats/:id/messages", "POST /chats/:id/pause",
     "POST /chats/:id/unpause"}

\* The step serves a chat route for an authenticated caller.
ChatRouteCall == res'.op \in ChatRoutes /\ res'.user # Null

\* The call names an existing request chat the caller is no participant of.
OutsiderOfChat ==
    /\ ~res'.target.contact
    /\ FindById(chats, res'.target.id) # Null
    /\ Val(res'.user) \notin Range(Val(FindById(chats, res'.target.id)).participants)

\* The call names a contact thread of another sender.
OutsiderOfThread ==
    /\ res'.target.contact
    /\ isValidObjectId(res'.target.fromUserId) /\ isValidObjectId(res'.target.donorId)
    /\ res'.target.fromUserId # Val(res'.user)

NothingServed == UNCHANGED store /\ "data" \notin DOMAIN res'

BlankSend == res'.op = "POST /chats/:id/messages" /\ res'.text = <<>>

-----------------------------------------------------------------------------
(* C24: pausedBy under interleaved pause and unpause calls. *)

\* Run p completes in the step.
Completes(p) == procs[p].pc = "save" /\ procs'[p].pc = "done"

NoDuplicates(seq) == \A i, j \in 1..Len(seq) : seq[i] = seq[j] => i = j

\* pausedBy of the stored chat after the completion of a pause or unpause of
\* user u, from pausedBy before it.
PausedAfter(op, u, before) ==
    IF op = "POST /chats/:id/pause" THEN before \cup {u} ELSE before \ {u}

\* C24: when a pause or unpause call of a participant completes, pausedBy of
\* the stored chat is what it was with the caller added (pause) or removed
\* (unpause), whatever calls ran in between: pausing twice is pausing once, an
\* unpause keeps the pause of the other participant, two participants who
\* pause together are both in pausedBy; and pausedBy has no duplicates and
\* only participants.
C24_PausedByTracksCalls ==
    [][ \A p \in 1..Len(procs) : Completes(p) =>
          \A i \in 1..Len(chats) : chats[i]._id = procs[p].chat._id =>
             /\ Range(chats'[i].pausedBy)
                   = PausedAfter(procs[p].op, procs[p].user.id, Range(chats[i].pausedBy))
             /\ NoDuplicates(chats'[i].pausedBy)
             /\ Range(chats'[i].pausedBy) \subseteq Range(chats'[i].participants) ]_vars

\* C24 for the shape of pausedBy alone: in every reachable state pausedBy of
\* every chat has no duplicates and holds participants only.
C24_PausedByWellFormed ==
    \A i \in 1..Len(chats) :
        /\ NoDuplicates(chats[i].pausedBy)
        /\ Range(chats[i].pausedBy) \subseteq Range(chats[i].participants)

\* C24: users 2 and 3 paused chat 1 together; one call was answered 500 and
\* its caller is not in pausedBy.
C24_SeenRacingPauses ==
    /\ Len(procs) = 2 /\ procs[1].pc = "done" /\ procs[2].pc = "done"
    /\ procs[1].op = "POST /chats/:id/pause" /\ procs[2].op = "POST /chats/:id/pause"
    /\ procs[1].user.id # procs[2].user.id
    /\ res.status = 500
    /\ Len(chats[1].pausedBy) = 1

-----------------------------------------------------------------------------
(* C25: lastMessage under interleaved sends. *)

\* The messages of chat c, in the order of their creation.
MessagesOf(c) ==
    LET inChat(m) == m.request = c.request /\ {m.fromUser, m.toUser} \subseteq Range(c.participants)
    IN SelectSeq(requestMessages, inChat)

NoSendInProgress == \A p \in 1..Len(procs) : procs[p].pc = "done"

SnapshotOf(m) == Some([text |-> m.message, fromUser |-> m.fromUser, createdAt |-> m.createdAt])

\* C25: whenever no send is in progress on a chat that has a message,
\* lastMessage of the chat is the snapshot of its most recently created
\* message.
C25_LastMessageIsLatest ==
    NoSendInProgress =>
        \A i \in 1..Len(chats) :
            LET ms == MessagesOf(chats[i])
                latest == { m \in Range(ms) : \A o \in Range(ms) : o.createdAt <= m.createdAt }
            IN ms # <<>> => \E m \in latest : chats[i].lastMessage = SnapshotOf(m)

\* C25 for the sends that do not overlap: when a send saves its snapshot while
\* no other send is in progress, lastMessage becomes the most recently created
\* message.
C25_LoneSendIsLatest ==
    [][ \A p \in 1..Len(procs) :
          (/\ procs[p].pc = "save" /\ procs'[p].pc = "done"
           /\ \A q \in 1..Len(procs) : q # p => procs[q].pc = "done"
           /\ procs[p].msg = requestMessages[Len(requestMessages)])
          => \A i \in 1..Len(chats) : chats[i]._id = procs[p].chat._id =>
                chats'[i].lastMessage = SnapshotOf(requestMessages[Len(requestMessages)]) ]_vars

\* C25: two sends of users 2 and 3 overlapped and both are done.
C25_SeenOverlap ==
    /\ Len(procs) = 2 /\ NoSendInProgress
    /\ procs[1].user.id # procs[2].user.id
    /\ chats[1].lastMessage = SnapshotOf(procs[1].msg)

-----------------------------------------------------------------------------
(* C26: the participants of a request chat. *)

\* The owner of the request that chat c refers to.
OwnersOf(c) == { requests[i].user : i \in { j \in 1..Len(requests) : requests[j]._id = c.request } }

\* C26: every RequestChat has exactly two participants, they are distinct,
\* and one of them is the owner of the request of the chat.
C26_TwoDistinctParticipants ==
    \A i \in 1..Len(chats) :
        /\ Len(chats[i].participants) = 2
        /\ chats[i].participants[1] # chats[i].participants[2]
        /\ OwnersOf(chats[i]) \cap Range(chats[i].participants) # {}

\* C26: every RequestChat has two participants, one of them the owner of its
\* request (the part of C26 that holds).
C26_OwnerParticipates ==
    \A i \in 1..Len(chats) :
        /\ Len(chats[i].participants) = 2
        /\ OwnersOf(chats[i]) \cap Range(chats[i].participants) # {}

\* C26: a participant's send in a chat found no other participant and was
\* answered 400.
C26_NoOtherParticipant ==
    /\ res.op = "POST /chats/:id/messages" /\ res.status = 400 /\ res.text # <<>>
    /\ ~res.target.contact
    /\ \E i \in 1..Len(chats) :
          chats[i]._id = res.target.id /\ Range(chats[i].participants) = {Val(res.user)}

-----------------------------------------------------------------------------
(* C27: one chat per request and pair of users. *)

\* C27: no two RequestChats have the same request and the same participants.
C27_OneChatPerPair ==
    \A i, j \in 1..Len(chats) :
        (/\ chats[i].request = chats[j].request
         /\ Range(chats[i].participants) = Range(chats[j].participants)) => i = j

\* C27: a call whose lookup found a chat of the pair creates none.
C27_FoundChatIsReused ==
    [][ \A p \in 1..Len(procs) :
          (procs[p].pc = "create" /\ procs'[p].pc = "done" /\ procs[p].found # Null)
          => Len(chats') = Len(chats) ]_vars

\* C27: two calls of the same user overlapped and each created a chat.
C27_SeenRacingContacts ==
    /\ Len(procs) = 2 /\ procs[1].pc = "done" /\ procs[2].pc = "done"
    /\ procs[1].found = Null /\ procs[2].found = Null
    /\ procs[1].user.id = 3 /\ procs[2].user.id = 3
    /\ Len(chats) = 2 /\ chats[1].participants = chats[2].participants

-----------------------------------------------------------------------------
(* C28: the request numbers of a user. *)

\* The requests of user u, in the order of their creation.
RequestsOf(u) == LET mine(r) == r.user = u IN SelectSeq(requests, mine)

\* C28: for each user, the requestNumbers of the requests the user created
\* are 1..n in creation order (so pairwise distinct).
C28_NumbersAreSequential ==
    \A u \in {users[i]._id : i \in 1..Len(users)} :
        \A k \in 1..Len(RequestsOf(u)) : RequestsOf(u)[k].requestNumber = k

\* C28: the requestNumber of a request is at least 1 and at most the number
\* of requests its user has created up to it.
C28_NumbersInRange ==
    \A u \in {users[i]._id : i \in 1..Len(users)} :
        \A k \in 1..Len(RequestsOf(u)) :
            RequestsOf(u)[k].requestNumber \in 1..k

\* C28: two creations of one user overlapped and both are saved.
C28_SeenRacingCreations ==
    /\ Len(procs) >= 2 /\ procs[1].pc = "done" /\ procs[2].pc = "done"
    /\ procs[1].user.id = procs[2].user.id
    /\ procs[1].count = procs[2].count
    /\ Len(RequestsOf(procs[1].user.id)) >= 2

-----------------------------------------------------------------------------
(* C29: the donors of the public search. *)

\* The role of the viewer of the response, by the token the request carried.
SearchViewerRole ==
    IF ViewerIsAdmin THEN "admin" ELSE IF ViewerLoggedIn THEN "registered" ELSE "guest"

SearchViewerId == IF ViewerLoggedIn THEN Some(Val(res.header).id) ELSE Null

\* Donor d passes the filters of the query of the response; the city filter
\* is the case-insensitive pattern the query gives.
PassesQuery(d) ==
    /\ (res.query.bloodGroup # Null => d.bloodGroup = Val(res.query.bloodGroup))
    /\ (res.query.city # Null => RegexI(Val(res.query.city), d.address.city))

\* C29: every donor GET /donors/search returns is willing to donate, is not
\* soft-deleted, passes the blood group and city filters given, has a
\* visibility allowed for the viewer's role, and is returned as the
\* toSafeObject projection for the viewer.
C29_SearchResults ==
    SearchCall =>
        \A v \in Range(res.data) :
            LET d == StoredDonor(v) IN
            /\ d.willingToDonate
            /\ ~d.isDeleted
            /\ PassesQuery(d)
            /\ d.visibility \in allowedVisibilities(SearchViewerRole)
            /\ DOMAIN v = IncludedFields(d, SearchViewerRole, SearchViewerId)

\* C29 without the soft-delete condition (the part of C29 that holds).
C29_SearchResultsButDeleted ==
    SearchCall =>
        \A v \in Range(res.data) :
            LET d == StoredDonor(v) IN
            /\ d.willingToDonate
            /\ PassesQuery(d)
            /\ d.visibility \in allowedVisibilities(SearchViewerRole)
            /\ DOMAIN v = IncludedFields(d, SearchViewerRole, SearchViewerId)

\* C29: a search returned the soft-deleted donor 1.
C29_DeletedDonorReturned ==
    /\ SearchCall /\ donors[1].isDeleted
    /\ \E v \in Range(res.data) : v._id = 1

-----------------------------------------------------------------------------
(* C30: tokens issued before a deactivation or a demotion. *)

\* The stored user of the token of header h.
StoredUser(h) == Val(FindById(users, Val(h).id))

\* The viewer role the public search should apply to the token of header h:
\* by the stored user, guest when deactivated.
CurrentViewerRole(h) ==
    IF StoredUser(h).isActive = FALSE THEN "guest"
    ELSE IF StoredUser(h).role = "admin" THEN "admin"
    ELSE "registered"

CurrentViewerId(h) == IF StoredUser(h).isActive = FALSE THEN Null ELSE Some(Val(h).id)

\* The user of the token of header h has been deactivated, or demoted from
\* the admin role the token carries.
Revoked(h) ==
    \/ StoredUser(h).isActive = FALSE
    \/ Val(h).role = "admin" /\ StoredUser(h).role # "admin"

\* The step is a call of op answered in it (a management call changes res
\* whenever it changes users, so res' # res tells a new answer).
Answered(op) == res'.op = op /\ res' # res

\* GET /donors/:id/eligibility rejects the token of a deactivated user with
\* 403 and decides by the stored role.
EligibilityByStoredUser ==
    Answered("GET /donors/:id/eligibility") /\ Revoked(res'.header) =>
        LET u == StoredUser(res'.header) IN
        /\ u.isActive = FALSE => res'.status = 403
        /\ res'.status = 200 => u.role = "admin" \/ res'.donor.user = u._id

\* GET /donors/search returns the donors and the fields of the viewer role of
\* the stored user.
SearchByStoredUser ==
    Answered("GET /donors/search") /\ Revoked(res'.header) =>
        LET h == res'.header
            visible == { d \in Range(donors) :
                           d.visibility \in allowedVisibilities(CurrentViewerRole(h)) }
        IN /\ {v._id : v \in Range(res'.data)} = {d._id : d \in visible}
           /\ \A v \in Range(res'.data) :
                DOMAIN v = IncludedFields(StoredDonor(v), CurrentViewerRole(h),
                                          CurrentViewerId(h))

\* C30: every request carrying the token of a deactivated user or demoted
\* admin is served by the current stored state of the user: the
\* auth-protected route rejects a deactivated user and
\* applies the stored role, and the public search treats a deactivated user
\* as a guest and a demoted admin as registered.
C30_CurrentPrivileges == [][EligibilityByStoredUser /\ SearchByStoredUser]_vars

\* C30, the auth-protected route alone (the part of C30 that holds).
C30_AuthAppliesStoredUser == [][EligibilityByStoredUser]_vars

\* C30: the search answered the token of user 2, demoted to user or
\* deactivated, with the donor of visibility "admin".
C30_SeenOldPrivileges ==
    /\ res.op = "GET /donors/search" /\ Val(res.header).id = 2
    /\ (users[2].role = "user" \/ users[2].isActive = FALSE)
    /\ \E v \in Range(res.data) : v._id = 1

\* C30: the eligibility route answered 403 to the token of user 2 after the
\* demotion or deactivation of user 2.
C30_SeenRejected ==
    /\ res.op = "GET /donors/:id/eligibility" /\ Val(res.header).id = 2
    /\ res.status = 403
    /\ (users[2].role = "user" \/ users[2].isActive = FALSE)

====
